---- MODULE Spec2Model ----
(***************************************************************************)
(* A model of parts of the walk toolkit, each under its own specification: *)
(*   - ProceedEvent / ProceedEventPublisher (proceedevent.go) together     *)
(*     with the notify icon window procedure that consults it              *)
(*     (notifyicon.go), under Spec;                                        *)
(*   - stripMnemonic of the owner-drawn menu code, under SpecMnemonic;     *)
(*   - newMenuSharedMetrics and CopyForDPI, under SpecMetrics;             *)
(*   - menuSpecificMetrics, under SpecAccel;                               *)
(*   - menuItemLayout.measure and layout, under SpecLayout;                *)
(*   - itemStateToThemeStates, under SpecThemeStates;                      *)
(*   - onDraw and BufferedPaint, under SpecDraw;                           *)
(*   - NotifyIcon, its shell icon and the two registries (notifyicon.go), *)
(*     under SpecIcon.                                                     *)
(* Go slices are 0-based: handle i names element i+1 of a TLA+ sequence.   *)
(***************************************************************************)
EXTENDS Integers, Sequences, FiniteSets, TLC

VARIABLES
    handlers,      \* ProceedEvent.handlers: sequence of [handler, once]
    nextId,        \* identity of the next func value handed to Attach/Once
    handleOf,      \* history: handler id -> the slot index its Attach returned
    reusedIds,     \* history: handler ids that were placed into a reused slot
    lastDetached,  \* history: handle of the last Detach since the last Attach
    detachedIds,   \* history: the handlers that were detached
    onceIds,       \* history: the handlers that were attached with Once
    lastOp,        \* history: the last operation on the event and its outcome
    mnIn,          \* stripMnemonic: the UTF-16 input sequence
    mnLayout,      \* stripMnemonic: the keyboard layout VkKeyScan consults
    mnOut,         \* stripMnemonic: its result
    theme,         \* the theme query results newMenuSharedMetrics reads
    sm96,          \* the 96-dpi menuSharedMetrics of the window (or NoMetrics)
    smCopy,        \* the menuSharedMetrics last returned by CopyForDPI
    smOp,          \* outcome of the last call on the metrics
    mm,            \* menuSpecificMetrics.maxAccelTextExtent of the menu
    ml,            \* the menuItemLayout of the menu item
    item,          \* the Action of the menu item
    menuOp,        \* outcome of the last call on the menu or the menu item
    heap,          \* the NotifyIcon objects the program created
    notifyIcons,   \* notifyIcons: the set of the icons not disposed of
    notifyIconIDs, \* notifyIconIDs: 16-bit shell id -> icon (NoIcon: no entry)
    shell,         \* per icon, what the shell was last successfully told
    iconOp         \* outcome of the last call on a notify icon

vars == <<handlers, nextId, handleOf, reusedIds, lastDetached, detachedIds,
          onceIds, lastOp, mnIn, mnLayout, mnOut, theme, sm96, smCopy, smOp, mm, ml, item,
          menuOp, heap, notifyIcons, notifyIconIDs, shell, iconOp>>

eventVars == <<handlers, nextId, handleOf, reusedIds, lastDetached, detachedIds,
               onceIds, lastOp>>
mnemonicVars == <<mnIn, mnLayout, mnOut>>
metricsVars == <<theme, sm96, smCopy, smOp>>
menuVars == <<mm, ml, item, menuOp>>
iconVars == <<heap, notifyIcons, notifyIconIDs, shell, iconOp>>

(***************************************************************************)
(* Bounds of the model.                                                    *)
(***************************************************************************)
\* Number of Attach/Once calls in a behaviour (each passes a fresh func).
MaxAttach == 3

(***************************************************************************)
(* ProceedEvent (proceedevent.go)                                          *)
(***************************************************************************)
\* The nil ProceedEventHandler.
NilHandler == 0

\* proceedEventHandlerInfo{handler, once}
HandlerInfo(h, o) == [handler |-> h, once |-> o]

\* A defective slot scan that takes the last empty slot instead of the first.
RECURSIVE AttachScanHighest(_, _)
AttachScanHighest(hs, i) ==
    IF i >= Len(hs) THEN -1
    ELSE LET later == AttachScanHighest(hs, i + 1)
         IN  IF later # -1 THEN later
             ELSE IF hs[i + 1].handler = NilHandler THEN i
             ELSE -1

\* The slot scan of Attach: the first index whose handler is nil, or -1.
RECURSIVE AttachScan(_, _)
AttachScan(hs, i) ==
    IF i >= Len(hs) THEN -1
    ELSE IF hs[i + 1].handler = NilHandler THEN i
    ELSE AttachScan(hs, i + 1)

\* A defective Attach that always appends.
AttachAlwaysAppend(hs, h) ==
    [handlers |-> Append(hs, HandlerInfo(h, FALSE)), ret |-> Len(hs)]

\* A defective Attach that stores only the handler into a reused slot, so the
\* slot keeps the one-shot mark of its previous handler.
AttachKeepingMark(hs, h) ==
    LET i == AttachScan(hs, 0)
    IN  IF i # -1
        THEN [handlers |-> [hs EXCEPT ![i + 1].handler = h], ret |-> i]
        ELSE LET appended == Append(hs, HandlerInfo(h, FALSE))
             IN  [handlers |-> appended, ret |-> Len(appended) - 1]

\* ProceedEvent.Attach: the handlers afterwards and the handle returned.
Attach(hs, h) ==
    LET i == AttachScan(hs, 0)
    IN  IF i # -1
        THEN [handlers |-> [hs EXCEPT ![i + 1] = HandlerInfo(h, FALSE)], ret |-> i]
        ELSE LET appended == Append(hs, HandlerInfo(h, FALSE))
             IN  [handlers |-> appended, ret |-> Len(appended) - 1]

\* A defective Detach that compacts the slice instead of clearing the slot.
DetachCompacting(hs, handle) ==
    SubSeq(hs, 1, handle) \o SubSeq(hs, handle + 2, Len(hs))

\* A defective Detach that drops the slot when it is the last of the slice.
DetachTrimming(hs, handle) ==
    IF handle + 1 = Len(hs) THEN SubSeq(hs, 1, handle)
    ELSE [hs EXCEPT ![handle + 1].handler = NilHandler]

\* ProceedEvent.Detach for a handle within range (an index outside the slice
\* is a run-time panic, see DetachOp).
Detach(hs, handle) == [hs EXCEPT ![handle + 1].handler = NilHandler]

\* ProceedEvent.Once: Attach, then mark the slot one-shot.
Once(hs, h) ==
    LET a == Attach(hs, h)
    IN  [handlers |-> [a.handlers EXCEPT ![a.ret + 1].once = TRUE], ret |-> a.ret]

\* One entry of the record of a dispatch: which slot was invoked, what it
\* held, and what the handler returned.
Invocation(i, h, proceed) ==
    [slot |-> i, handler |-> h.handler, once |-> h.once, proceed |-> proceed]

\* A defective dispatch loop that keeps going after a handler returned false.
RECURSIVE PublishNoAbort(_, _, _, _)
PublishNoAbort(i, hs, rets, inv) ==
    IF i >= Len(hs) THEN
        [handlers |-> hs, invoked |-> inv,
         ret |-> \A k \in 1..Len(inv) : inv[k].proceed]
    ELSE
        LET h == hs[i + 1]
        IN  IF h.handler # NilHandler
            THEN PublishNoAbort(i + 1, IF h.once THEN Detach(hs, i) ELSE hs, rets,
                                Append(inv, Invocation(i, h, rets[i + 1])))
            ELSE PublishNoAbort(i + 1, hs, rets, inv)

\* A defective dispatch loop that detaches a one-shot handler only when it
\* returned true.
RECURSIVE PublishKeepOnAbort(_, _, _, _)
PublishKeepOnAbort(i, hs, rets, inv) ==
    IF i >= Len(hs) THEN [handlers |-> hs, invoked |-> inv, ret |-> TRUE]
    ELSE
        LET h == hs[i + 1]
        IN  IF h.handler # NilHandler
            THEN IF ~rets[i + 1]
                 THEN [handlers |-> hs,
                       invoked |-> Append(inv, Invocation(i, h, FALSE)),
                       ret |-> FALSE]
                 ELSE PublishKeepOnAbort(i + 1, IF h.once THEN Detach(hs, i) ELSE hs,
                                         rets, Append(inv, Invocation(i, h, TRUE)))
            ELSE PublishKeepOnAbort(i + 1, hs, rets, inv)

\* A defective dispatch loop that walks the slots from the last to the first.
RECURSIVE PublishDescending(_, _, _, _)
PublishDescending(i, hs, rets, inv) ==
    IF i >= Len(hs) THEN [handlers |-> hs, invoked |-> inv, ret |-> TRUE]
    ELSE
        LET j == Len(hs) - 1 - i
            h == hs[j + 1]
        IN  IF h.handler # NilHandler
            THEN LET hs2 == IF h.once THEN Detach(hs, j) ELSE hs
                     inv2 == Append(inv, Invocation(j, h, rets[j + 1]))
                 IN  IF ~rets[j + 1]
                     THEN [handlers |-> hs2, invoked |-> inv2, ret |-> FALSE]
                     ELSE PublishDescending(i + 1, hs2, rets, inv2)
            ELSE PublishDescending(i + 1, hs, rets, inv)

\* A defective dispatch loop that detaches the one-shot handlers it invoked
\* once the loop is over, and not at all when a handler aborts the dispatch.
RECURSIVE PublishDetachAtEnd(_, _, _, _)
PublishDetachAtEnd(i, hs, rets, inv) ==
    IF i >= Len(hs) THEN
        [handlers |-> [k \in 1..Len(hs) |->
                          IF \E j \in 1..Len(inv) : inv[j].slot = k - 1 /\ inv[j].once
                          THEN [hs[k] EXCEPT !.handler = NilHandler]
                          ELSE hs[k]],
         invoked |-> inv, ret |-> TRUE]
    ELSE
        LET h == hs[i + 1]
        IN  IF h.handler # NilHandler
            THEN IF ~rets[i + 1]
                 THEN [handlers |-> hs,
                       invoked |-> Append(inv, Invocation(i, h, FALSE)),
                       ret |-> FALSE]
                 ELSE PublishDetachAtEnd(i + 1, hs, rets,
                                         Append(inv, Invocation(i, h, TRUE)))
            ELSE PublishDetachAtEnd(i + 1, hs, rets, inv)

\* The loop of ProceedEventPublisher.Publish from index i on. rets[i + 1] is
\* what the handler in slot i returns if it is invoked; inv records the
\* invocations made so far. The range loop reads element i when it reaches it,
\* and Detach(i) writes only element i, so the loop sees hs as it goes.
RECURSIVE PublishFrom(_, _, _, _)
PublishFrom(i, hs, rets, inv) ==
    IF i >= Len(hs) THEN [handlers |-> hs, invoked |-> inv, ret |-> TRUE]
    ELSE
        LET h == hs[i + 1]
        IN  IF h.handler # NilHandler
            THEN LET proceed == rets[i + 1]
                     hs2 == IF h.once THEN Detach(hs, i) ELSE hs
                     inv2 == Append(inv, Invocation(i, h, proceed))
                 IN  IF ~proceed
                     THEN [handlers |-> hs2, invoked |-> inv2, ret |-> FALSE]
                     ELSE PublishFrom(i + 1, hs2, rets, inv2)
            ELSE PublishFrom(i + 1, hs, rets, inv)

\* ProceedEventPublisher.Publish
Publish(hs, rets) == PublishFrom(0, hs, rets, <<>>)

\* The one-shot handlers a dispatch invoked: Publish calls Detach for each.
OneShots(inv) == {inv[k].handler : k \in {j \in 1..Len(inv) : inv[j].once}}

\* What is recorded of a call that was no window procedure call.
NoWnd ==
    [msg |-> "none", registered |-> FALSE, published |-> FALSE, proceed |-> FALSE,
     invoked |-> <<>>, hasVisible |-> FALSE, foreground |-> FALSE,
     tracked |-> FALSE, posted |-> FALSE, triggered |-> 0, ret |-> "none"]

\* The record kept of an operation on the event: its arguments and results,
\* and the state it started from.
OpRecord(op, handle, ret, proceed, invoked, panicked, w) ==
    [op |-> op, handle |-> handle, ret |-> ret, proceed |-> proceed,
     invoked |-> invoked, panicked |-> panicked, wnd |-> w,
     pre |-> handlers, preNext |-> nextId, preDetached |-> lastDetached,
     preDetachedIds |-> detachedIds]

(***************************************************************************)
(* notifyIconWndProc (notifyicon.go)                                       *)
(***************************************************************************)
WM_CONTEXTMENU == "WM_CONTEXTMENU"
WM_LBUTTONDOWN == "WM_LBUTTONDOWN"
Messages == {WM_CONTEXTMENU, WM_LBUTTONDOWN}

\* What TrackPopupMenuEx may return: 0 (nothing chosen) or a command id.
ActionIds == {0, 1, 2}
\* The ids actionsById holds.
actionsById == {1}

\* The result of a window procedure call: what it did to the event's handlers,
\* the dispatch it made, and the calls it issued.
WndResult(hs, msg, registered, published, proceed, invoked, hasVisible, shown, triggered, ret) ==
    [handlers |-> hs,
     wnd |-> [msg |-> msg, registered |-> registered, published |-> published,
              proceed |-> proceed, invoked |-> invoked, hasVisible |-> hasVisible,
              foreground |-> shown, tracked |-> shown, posted |-> shown,
              triggered |-> triggered, ret |-> ret]]

\* A defective window procedure that publishes the event but shows the menu
\* whatever the handlers answered.
WndProcIgnoringVeto(hs, registered, msg, rets, hasVisible, actionId) ==
    IF ~registered
    THEN WndResult(hs, msg, FALSE, FALSE, FALSE, <<>>, hasVisible, FALSE, 0,
                   "DefWindowProc")
    ELSE IF msg = WM_CONTEXTMENU
    THEN LET p == Publish(hs, rets)
         IN  IF ~hasVisible
             THEN WndResult(p.handlers, msg, TRUE, TRUE, p.ret, p.invoked, hasVisible,
                            FALSE, 0, "DefWindowProc")
             ELSE WndResult(p.handlers, msg, TRUE, TRUE, p.ret, p.invoked, hasVisible,
                            TRUE, IF actionId # 0 /\ actionId \in actionsById THEN actionId ELSE 0, "0")
    ELSE WndResult(hs, msg, TRUE, FALSE, FALSE, <<>>, hasVisible, FALSE, 0,
                   "DefWindowProc")

\* notifyIconWndProc for the icon whose ShowContextMenu event is hs.
\* registered: notifyIconIDs holds the id the message carries; hasVisible:
\* what contextMenu.Actions().HasVisible() answers; actionId: what
\* TrackPopupMenuEx returns.
NotifyIconWndProc(hs, registered, msg, rets, hasVisible, actionId) ==
    IF ~registered
    THEN WndResult(hs, msg, FALSE, FALSE, FALSE, <<>>, hasVisible, FALSE, 0,
                   "DefWindowProc")
    ELSE IF msg = WM_CONTEXTMENU
    THEN LET p == Publish(hs, rets)
         IN  IF ~p.ret \/ ~hasVisible
             THEN WndResult(p.handlers, msg, TRUE, TRUE, p.ret, p.invoked, hasVisible,
                            FALSE, 0, "DefWindowProc")
             ELSE WndResult(p.handlers, msg, TRUE, TRUE, p.ret, p.invoked, hasVisible,
                            TRUE, IF actionId # 0 /\ actionId \in actionsById THEN actionId ELSE 0, "0")
    ELSE WndResult(hs, msg, TRUE, FALSE, FALSE, <<>>, hasVisible, FALSE, 0,
                   "DefWindowProc")

\* e.Attach(handler) with a fresh handler.
AttachOp ==
    /\ nextId <= MaxAttach
    /\ LET a == Attach(handlers, nextId)
       IN  /\ handlers' = a.handlers
           /\ handleOf' = [handleOf EXCEPT ![nextId] = a.ret]
           /\ reusedIds' = IF a.ret < Len(handlers) THEN reusedIds \cup {nextId}
                           ELSE reusedIds
           /\ lastOp' = OpRecord("Attach", -1, a.ret, TRUE, <<>>, FALSE, NoWnd)
    /\ nextId' = nextId + 1
    /\ lastDetached' = -1
    /\ UNCHANGED <<detachedIds, onceIds, mnemonicVars, metricsVars, menuVars, iconVars>>

\* e.Once(handler) with a fresh handler.
OnceOp ==
    /\ nextId <= MaxAttach
    /\ LET a == Once(handlers, nextId)
       IN  /\ handlers' = a.handlers
           /\ handleOf' = [handleOf EXCEPT ![nextId] = a.ret]
           /\ reusedIds' = IF a.ret < Len(handlers) THEN reusedIds \cup {nextId}
                           ELSE reusedIds
           /\ lastOp' = OpRecord("Once", -1, a.ret, TRUE, <<>>, FALSE, NoWnd)
    /\ nextId' = nextId + 1
    /\ lastDetached' = -1
    /\ onceIds' = onceIds \cup {nextId}
    /\ UNCHANGED <<detachedIds, mnemonicVars, metricsVars, menuVars, iconVars>>

\* e.Detach(handle) for any integer handle a caller may pass: an index outside
\* the slice panics (index out of range) and changes nothing.
DetachOp ==
    \E handle \in -1..MaxAttach :
        /\ IF handle >= 0 /\ handle < Len(handlers)
           THEN /\ handlers' = Detach(handlers, handle)
                /\ lastDetached' = handle
                /\ detachedIds' = detachedIds \cup
                                      ({handlers[handle + 1].handler} \ {NilHandler})
                /\ lastOp' = OpRecord("Detach", handle, -1, TRUE, <<>>, FALSE, NoWnd)
           ELSE /\ lastOp' = OpRecord("Detach", handle, -1, TRUE, <<>>, TRUE, NoWnd)
                /\ UNCHANGED <<handlers, lastDetached, detachedIds>>
        /\ UNCHANGED <<nextId, handleOf, reusedIds, onceIds, mnemonicVars, metricsVars,
                       menuVars, iconVars>>

\* p.Publish(), each handler returning what rets says.
PublishOp ==
    \E rets \in [1..Len(handlers) -> BOOLEAN] :
        LET p == Publish(handlers, rets)
        IN  /\ handlers' = p.handlers
            /\ detachedIds' = detachedIds \cup OneShots(p.invoked)
            /\ lastOp' = OpRecord("Publish", -1, -1, p.ret, p.invoked, FALSE, NoWnd)
            /\ UNCHANGED <<nextId, handleOf, reusedIds, lastDetached, onceIds,
                           mnemonicVars, metricsVars, menuVars, iconVars>>

\* The message window receives a message that does not reach the context menu
\* code: one for an id notifyIconIDs does not hold, or a mouse message. The
\* code reads none of the other inputs on these paths.
WndProcOtherOp ==
    \E registered \in BOOLEAN, msg \in Messages :
        /\ ~registered \/ msg # WM_CONTEXTMENU
        /\ LET r == NotifyIconWndProc(handlers, registered, msg,
                                      [i \in 1..Len(handlers) |-> TRUE], FALSE, 0)
           IN  /\ handlers' = r.handlers
               /\ detachedIds' = detachedIds \cup OneShots(r.wnd.invoked)
               /\ lastOp' = OpRecord("WndProc", -1, -1, TRUE, <<>>, FALSE, r.wnd)
        /\ UNCHANGED <<nextId, handleOf, reusedIds, lastDetached, onceIds,
                       mnemonicVars, metricsVars, menuVars, iconVars>>

\* The message window receives WM_CONTEXTMENU for the registered icon.
WndProcContextMenuOp ==
    \E hasVisible \in BOOLEAN, actionId \in ActionIds,
       rets \in [1..Len(handlers) -> BOOLEAN] :
        LET r == NotifyIconWndProc(handlers, TRUE, WM_CONTEXTMENU, rets, hasVisible,
                                   actionId)
        IN  /\ handlers' = r.handlers
            /\ detachedIds' = detachedIds \cup OneShots(r.wnd.invoked)
            /\ lastOp' = OpRecord("WndProc", -1, -1, r.wnd.proceed, r.wnd.invoked,
                                  FALSE, r.wnd)
            /\ UNCHANGED <<nextId, handleOf, reusedIds, lastDetached, onceIds,
                           mnemonicVars, metricsVars, menuVars, iconVars>>

EventInit ==
    /\ handlers = <<>>
    /\ nextId = 1
    /\ handleOf = [id \in 1..MaxAttach |-> -1]
    /\ reusedIds = {}
    /\ lastDetached = -1
    /\ detachedIds = {}
    /\ onceIds = {}
    /\ lastOp = [op |-> "none", handle |-> -1, ret |-> -1, proceed |-> TRUE,
                 invoked |-> <<>>, panicked |-> FALSE, wnd |-> NoWnd,
                 pre |-> <<>>, preNext |-> 1, preDetached |-> -1,
                 preDetachedIds |-> {}]

MnemonicIdle ==
    /\ mnIn = <<>>
    /\ mnLayout = "us"
    /\ mnOut = [done |-> FALSE]

MetricsIdle ==
    /\ theme = [borderSize |-> 0]
    /\ sm96 = [dpi |-> 0]
    /\ smCopy = [dpi |-> 0]
    /\ smOp = [op |-> "none"]

MenuIdle ==
    /\ mm = [CX |-> 0, CY |-> 0]
    /\ ml = [contentSize |-> [CX |-> 0, CY |-> 0]]
    /\ item = [separator |-> FALSE]
    /\ menuOp = [op |-> "none"]

\* No notify icon exists.
IconIdle ==
    /\ heap = <<>>
    /\ notifyIcons = {}
    /\ notifyIconIDs = <<>>
    /\ shell = <<>>
    /\ iconOp = [op |-> "none"]

Init == EventInit /\ MnemonicIdle /\ MetricsIdle /\ MenuIdle /\ IconIdle

Next == AttachOp \/ OnceOp \/ DetachOp \/ PublishOp \/ WndProcOtherOp
          \/ WndProcContextMenuOp

Spec == Init /\ [][Next]_vars

(***************************************************************************)
(* stripMnemonic (owner-drawn menu code)                                   *)
(***************************************************************************)
\* Longest enumerated input of stripMnemonic.
MaxMnLen == 4

\* The marker '&'.
Amp == 38

\* The UTF-16 code units the enumerated inputs are made of: '&', 'L', 'o', a
\* CJK ideograph no key produces, and NUL (the terminator the callers pass).
Chars == {Amp, 76, 111, 20013, 0}

\* The keyboard layouts: VkKeyScan answers for the current one. Under "ctrl2"
\* NUL is typed as Ctrl+2; under "us" no key produces it.
Layouts == {"us", "ctrl2"}

\* The inputs of TestStripMnemonic, as UTF16FromString encodes them.
TestInputs ==
    { <<0>>,
      <<76, 97, 119, 32, 39, 78, 39, 32, 79, 114, 100, 101, 114, 0>>,
      <<76, 97, 119, 32, 38, 38, 32, 79, 114, 100, 101, 114, 0>>,
      <<76, 97, 119, 32, 38, 38, 32, 38, 79, 114, 100, 101, 114, 0>>,
      <<38, 76, 97, 119, 32, 38, 38, 32, 38, 79, 114, 100, 101, 114, 32, 38, 38,
        32, 66, 97, 99, 111, 110, 0>> }

\* win.VkKeyScan: the virtual-key code of the key that types c in the low
\* byte and the shift state in the high byte, or -1 when no key types c.
VkKeyScan(layout, c) ==
    IF c \in 65..90 THEN 256 + c
    ELSE IF c \in 97..122 THEN c - 32
    ELSE IF c = 32 THEN 32
    ELSE IF c = 39 THEN 222
    ELSE IF c = 0 /\ layout = "ctrl2" THEN 512 + 50
    ELSE -1

\* Key(vkInfo & 0xFF) for a vkInfo that is not -1.
LowByte(vkInfo) == vkInfo % 256

\* A defective scan that lets every later candidate overwrite the key.
RECURSIVE StripScanLastWins(_, _, _, _, _, _)
StripScanLastWins(layout, t, i, maybeMnemonic, stripIdx, newMnemonic) ==
    IF i >= Len(t) THEN [stripIdx |-> stripIdx, key |-> newMnemonic]
    ELSE
        LET c == t[i + 1]
        IN  IF maybeMnemonic
            THEN LET idx == Append(stripIdx, i - 1)
                 IN  IF c = Amp
                     THEN StripScanLastWins(layout, t, i + 1, FALSE, idx, newMnemonic)
                     ELSE IF VkKeyScan(layout, c) # -1
                     THEN StripScanLastWins(layout, t, i + 1, FALSE, idx,
                                            LowByte(VkKeyScan(layout, c)))
                     ELSE StripScanLastWins(layout, t, i + 1, FALSE, idx, newMnemonic)
            ELSE StripScanLastWins(layout, t, i + 1, c = Amp, stripIdx, newMnemonic)

\* A defective scan that converts the first character that has a key, marker
\* or no marker before it.
RECURSIVE StripScanKeyAnywhere(_, _, _, _, _, _)
StripScanKeyAnywhere(layout, t, i, maybeMnemonic, stripIdx, newMnemonic) ==
    IF i >= Len(t) THEN [stripIdx |-> stripIdx, key |-> newMnemonic]
    ELSE
        LET c == t[i + 1]
            key == IF newMnemonic = 0 /\ c # Amp /\ VkKeyScan(layout, c) # -1
                   THEN LowByte(VkKeyScan(layout, c))
                   ELSE newMnemonic
        IN  IF maybeMnemonic
            THEN StripScanKeyAnywhere(layout, t, i + 1, FALSE,
                                      Append(stripIdx, i - 1), key)
            ELSE StripScanKeyAnywhere(layout, t, i + 1, c = Amp, stripIdx, key)

\* A defective scan that, when the text ends while a marker is pending,
\* records that marker for stripping.
RECURSIVE StripScanTrailing(_, _, _, _, _, _)
StripScanTrailing(layout, t, i, maybeMnemonic, stripIdx, newMnemonic) ==
    IF i >= Len(t)
    THEN [stripIdx |-> IF maybeMnemonic THEN Append(stripIdx, i - 1) ELSE stripIdx,
          key |-> newMnemonic]
    ELSE
        LET p == t[i + 1]
        IN  IF maybeMnemonic
            THEN LET idx == Append(stripIdx, i - 1)
                 IN  IF p = Amp \/ newMnemonic # 0 \/ VkKeyScan(layout, p) = -1
                     THEN StripScanTrailing(layout, t, i + 1, FALSE, idx, newMnemonic)
                     ELSE StripScanTrailing(layout, t, i + 1, FALSE, idx,
                                            LowByte(VkKeyScan(layout, p)))
            ELSE StripScanTrailing(layout, t, i + 1, p = Amp, stripIdx, newMnemonic)

\* The scan loop of stripMnemonic from index i on: the indexes recorded for
\* stripping and the mnemonic.
RECURSIVE StripScan(_, _, _, _, _, _)
StripScan(layout, t, i, maybeMnemonic, stripIdx, newMnemonic) ==
    IF i >= Len(t) THEN [stripIdx |-> stripIdx, key |-> newMnemonic]
    ELSE
        LET p == t[i + 1]
        IN  IF maybeMnemonic
            THEN LET idx == Append(stripIdx, i - 1)
                 IN  IF p = Amp
                     THEN StripScan(layout, t, i + 1, FALSE, idx, newMnemonic)
                     ELSE IF newMnemonic # 0
                     THEN StripScan(layout, t, i + 1, FALSE, idx, newMnemonic)
                     ELSE LET vkInfo == VkKeyScan(layout, p)
                          IN  IF vkInfo # -1
                              THEN StripScan(layout, t, i + 1, FALSE, idx,
                                             LowByte(vkInfo))
                              ELSE StripScan(layout, t, i + 1, FALSE, idx, newMnemonic)
            ELSE IF p = Amp
            THEN StripScan(layout, t, i + 1, TRUE, stripIdx, newMnemonic)
            ELSE StripScan(layout, t, i + 1, FALSE, stripIdx, newMnemonic)

\* slices.Delete(s, i, j): s without the elements s[i:j].
SlicesDelete(t, i, j) == SubSeq(t, 1, i) \o SubSeq(t, j + 1, Len(t))

\* A defective deletion loop that walks stripIdx from its first element.
RECURSIVE StripDeleteAscending(_, _, _, _)
StripDeleteAscending(t, stripIdx, i, order) ==
    IF i < 0 THEN [text |-> t, order |-> order]
    ELSE LET j == stripIdx[Len(stripIdx) - i]
         IN  StripDeleteAscending(SlicesDelete(t, j, j + 1), stripIdx, i - 1,
                                  Append(order, j))

\* The deletion loop of stripMnemonic, i running from len(stripIdx)-1 down to
\* 0: the text left and the indexes in the order they were deleted.
RECURSIVE StripDelete(_, _, _, _)
StripDelete(t, stripIdx, i, order) ==
    IF i < 0 THEN [text |-> t, order |-> order]
    ELSE LET j == stripIdx[i + 1]
         IN  StripDelete(SlicesDelete(t, j, j + 1), stripIdx, i - 1, Append(order, j))

\* stripMnemonic(textUTF16): the mnemonic, the stripped text, and (for the
\* record) the indexes recorded and the order of their deletion.
stripMnemonic(layout, textUTF16) ==
    LET scan == StripScan(layout, textUTF16, 0, FALSE, <<>>, 0)
        del == StripDelete(textUTF16, scan.stripIdx, Len(scan.stripIdx) - 1, <<>>)
    IN  [done |-> TRUE, key |-> scan.key, text |-> del.text,
         stripIdx |-> scan.stripIdx, order |-> del.order]

\* The sequences over Chars of at most MaxMnLen elements.
BoundedTexts == UNION {[1..n -> Chars] : n \in 0..MaxMnLen}

\* stripMnemonic is called on the input.
StripOp ==
    /\ ~mnOut.done
    /\ mnOut' = stripMnemonic(mnLayout, mnIn)
    /\ UNCHANGED <<mnIn, mnLayout, eventVars, metricsVars, menuVars, iconVars>>

MnemonicInit ==
    /\ mnIn \in BoundedTexts \cup TestInputs
    /\ mnLayout \in Layouts
    /\ mnOut = [done |-> FALSE]

MnemonicNext == StripOp

InitMnemonic == EventInit /\ MnemonicInit /\ MetricsIdle /\ MenuIdle /\ IconIdle

SpecMnemonic == InitMnemonic /\ [][MnemonicNext]_vars

(***************************************************************************)
(* menuSharedMetrics (owner-drawn menu code)                               *)
(***************************************************************************)
\* The theme's sizes, margins and border sizes each range over MaxMetric + 1
\* consecutive values.
MaxMetric == 2
\* The target pixel densities are 96, 120, ... up to 96 + 24 * MaxDpiSteps.
MaxDpiSteps == 4
\* Number of theme queries that fail in one theme.
MaxFailures == 1

\* The pixel density the metrics are measured at.
BaseDPI == 96

\* win.SIZE and win.MARGINS
Size(cx, cy) == [CX |-> cx, CY |-> cy]
Margins(l, r, t, b) ==
    [LeftWidth |-> l, RightWidth |-> r, TopHeight |-> t, BottomHeight |-> b]

\* No *menuSharedMetrics (nil).
NoMetrics == [dpi |-> 0]

\* The queries newMenuSharedMetrics makes, in the order it makes them.
Queries ==
    <<"ThemeForClass", "separatorSize", "checkSize", "borderSize", "bgBorderSize",
      "checkMargins", "checkBgMargins", "itemMargins", "chevronMargins",
      "chevronSize", "menuFont", "logFont", "boldFont">>

\* The sets of queries that fail in one theme: at most MaxFailures of them.
FailureSets ==
    {S \in SUBSET {Queries[k] : k \in 1..Len(Queries)} : Cardinality(S) <= MaxFailures}

\* What the menu theme answers to the queries of newMenuSharedMetrics: the
\* sizes grow with a, the margins with b, the border sizes with c, and the
\* queries in failed return an error.
ThemeOf(a, b, c, failed) ==
    [failed |-> failed,
     separatorSize |-> Size(1 + a, 6 + a),
     checkSize |-> Size(7 + a, 9 + a),
     chevronSize |-> Size(4 + a, 10 + 3 * a),
     borderSize |-> c,
     bgBorderSize |-> 1 + c,
     checkMargins |-> Margins(3 + b, 2 + b, 1 + b, b),
     checkBgMargins |-> Margins(b, 1 + b, 2 + b, 3 + b),
     itemMargins |-> Margins(2 + b, 4 + b, b, 1 + b),
     chevronMargins |-> Margins(1 + b, b, 3 + b, 2 + b),
     menuFont |-> [face |-> "menu", weight |-> "normal"]]

Themes == {ThemeOf(a, b, c, f) : a, b, c \in 0..MaxMetric, f \in FailureSets}

\* The themes that answer every query.
SoundThemes == {th \in Themes : th.failed = {}}

\* The pixel densities CopyForDPI is called with.
TargetDPIs == {BaseDPI + 24 * k : k \in 0..MaxDpiSteps}

\* addMargins: sz grown by the total width and height of m.
addMargins(sz, m) ==
    Size(sz.CX + m.LeftWidth + m.RightWidth, sz.CY + m.TopHeight + m.BottomHeight)

\* No *Font (nil).
NilFont == [face |-> "nil", weight |-> "nil"]

\* The fields newMenuSharedMetrics fills in from the answers of the theme.
MetricsFrom(th) ==
    [dpi |-> BaseDPI,
     checkMargins |-> th.checkMargins,
     checkBgMargins |-> th.checkBgMargins,
     itemMargins |-> th.itemMargins,
     contentMargins |-> [th.itemMargins EXCEPT !.LeftWidth = th.bgBorderSize,
                                               !.RightWidth = th.borderSize],
     chevronMargins |-> th.chevronMargins,
     checkSize |-> th.checkSize,
     combinedCheckSize |-> addMargins(th.checkSize, th.checkMargins),
     combinedCheckBgSize |-> addMargins(addMargins(th.checkSize, th.checkMargins),
                                        th.checkBgMargins),
     chevronSize |-> th.chevronSize,
     combinedChevronSize |-> addMargins(th.chevronSize, th.chevronMargins),
     separatorSize |-> th.separatorSize,
     combinedSeparatorSize |-> addMargins(th.separatorSize, th.itemMargins),
     fontNormal |-> th.menuFont,
     fontBold |-> [th.menuFont EXCEPT !.weight = "bold"]]

\* A defective newMenuSharedMetrics that goes on without a bold font when the
\* bold font cannot be created.
newMenuSharedMetricsPartial(th) ==
    IF \E k \in 1..Len(Queries) : Queries[k] \in th.failed \ {"boldFont"}
    THEN NoMetrics
    ELSE [MetricsFrom(th) EXCEPT !.fontBold = IF "boldFont" \in th.failed
                                              THEN NilFont ELSE @]

\* newMenuSharedMetrics: nil as soon as one query fails, else the metrics
\* populated from the answers.
newMenuSharedMetrics(th) ==
    IF \E k \in 1..Len(Queries) : Queries[k] \in th.failed
    THEN NoMetrics
    ELSE MetricsFrom(th)

\* scaleInt(value, dpi/96): value * dpi / 96 rounded to the nearest integer,
\* halves away from zero.
ScaleFrom96DPI(value, dpi) ==
    IF value >= 0
    THEN (2 * value * dpi + BaseDPI) \div (2 * BaseDPI)
    ELSE -((2 * (-value) * dpi + BaseDPI) \div (2 * BaseDPI))

\* SIZEFrom96DPI
SIZEFrom96DPI(sz, dpi) == Size(ScaleFrom96DPI(sz.CX, dpi), ScaleFrom96DPI(sz.CY, dpi))

\* MARGINSFrom96DPI
MARGINSFrom96DPI(m, dpi) ==
    Margins(ScaleFrom96DPI(m.LeftWidth, dpi), ScaleFrom96DPI(m.RightWidth, dpi),
            ScaleFrom96DPI(m.TopHeight, dpi), ScaleFrom96DPI(m.BottomHeight, dpi))

\* A defective CopyForDPI that derives the combined check background size
\* from the combined check size.
CopyForDPIWrongField(sm, dpi) ==
    [dpi |-> dpi,
     checkMargins |-> MARGINSFrom96DPI(sm.checkMargins, dpi),
     checkBgMargins |-> MARGINSFrom96DPI(sm.checkBgMargins, dpi),
     itemMargins |-> MARGINSFrom96DPI(sm.itemMargins, dpi),
     contentMargins |-> MARGINSFrom96DPI(sm.contentMargins, dpi),
     chevronMargins |-> MARGINSFrom96DPI(sm.chevronMargins, dpi),
     checkSize |-> SIZEFrom96DPI(sm.checkSize, dpi),
     combinedCheckSize |-> SIZEFrom96DPI(sm.combinedCheckSize, dpi),
     combinedCheckBgSize |-> SIZEFrom96DPI(sm.combinedCheckSize, dpi),
     chevronSize |-> SIZEFrom96DPI(sm.chevronSize, dpi),
     combinedChevronSize |-> SIZEFrom96DPI(sm.combinedChevronSize, dpi),
     separatorSize |-> SIZEFrom96DPI(sm.separatorSize, dpi),
     combinedSeparatorSize |-> SIZEFrom96DPI(sm.combinedSeparatorSize, dpi),
     fontNormal |-> sm.fontNormal,
     fontBold |-> sm.fontBold]

\* menuSharedMetrics.CopyForDPI for a receiver at 96 dpi (any other receiver
\* panics, see CopyForDPIOp).
CopyForDPI(sm, dpi) ==
    [dpi |-> dpi,
     checkMargins |-> MARGINSFrom96DPI(sm.checkMargins, dpi),
     checkBgMargins |-> MARGINSFrom96DPI(sm.checkBgMargins, dpi),
     itemMargins |-> MARGINSFrom96DPI(sm.itemMargins, dpi),
     contentMargins |-> MARGINSFrom96DPI(sm.contentMargins, dpi),
     chevronMargins |-> MARGINSFrom96DPI(sm.chevronMargins, dpi),
     checkSize |-> SIZEFrom96DPI(sm.checkSize, dpi),
     combinedCheckSize |-> SIZEFrom96DPI(sm.combinedCheckSize, dpi),
     combinedCheckBgSize |-> SIZEFrom96DPI(sm.combinedCheckBgSize, dpi),
     chevronSize |-> SIZEFrom96DPI(sm.chevronSize, dpi),
     combinedChevronSize |-> SIZEFrom96DPI(sm.combinedChevronSize, dpi),
     separatorSize |-> SIZEFrom96DPI(sm.separatorSize, dpi),
     combinedSeparatorSize |-> SIZEFrom96DPI(sm.combinedSeparatorSize, dpi),
     fontNormal |-> sm.fontNormal,
     fontBold |-> sm.fontBold]

\* A defective guard that lets any receiver be scaled.
CopyForDPINeverPanics(sm) == FALSE

\* The guard of CopyForDPI: a receiver that is not at 96 dpi panics.
CopyForDPIPanics(sm) == sm.dpi # BaseDPI

\* The record kept of a call on the metrics: the receiver before and after the
\* call, the argument, whether the call panicked, and what it returned.
MetricsOp(op, receiver, dpi, panicked, result, after) ==
    [op |-> op, receiver |-> receiver, dpi |-> dpi, panicked |-> panicked,
     result |-> result, after |-> after]

\* The window's metrics are built from the theme; a window whose metrics
\* could not be built has none.
NewMenuSharedMetricsOp ==
    /\ sm96 = NoMetrics
    /\ LET sm == newMenuSharedMetrics(theme)
       IN  /\ sm96' = sm
           /\ smOp' = MetricsOp("newMenuSharedMetrics", NoMetrics, BaseDPI, FALSE, sm,
                                NoMetrics)
    /\ UNCHANGED <<theme, smCopy, eventVars, mnemonicVars, menuVars, iconVars>>

\* CopyForDPI(dpi) is called on the window's metrics or on the last copy made;
\* a receiver that is not at 96 dpi panics and nothing is returned. The call
\* assigns to no field of its receiver.
CopyForDPIOp ==
    \E receiver \in {sm96, smCopy} \ {NoMetrics}, dpi \in TargetDPIs :
        /\ IF CopyForDPIPanics(receiver)
           THEN /\ smOp' = MetricsOp("CopyForDPI", receiver, dpi, TRUE, NoMetrics,
                                     receiver)
                /\ UNCHANGED smCopy
           ELSE LET sm == CopyForDPI(receiver, dpi)
                IN  /\ smOp' = MetricsOp("CopyForDPI", receiver, dpi, FALSE, sm,
                                         receiver)
                    /\ smCopy' = sm
        /\ UNCHANGED <<theme, sm96, eventVars, mnemonicVars, menuVars, iconVars>>

MetricsInit ==
    /\ theme \in Themes
    /\ sm96 = NoMetrics
    /\ smCopy = NoMetrics
    /\ smOp = MetricsOp("none", NoMetrics, 0, FALSE, NoMetrics, NoMetrics)

InitMetrics == EventInit /\ MnemonicIdle /\ MetricsInit /\ MenuIdle /\ IconIdle

MetricsNext == NewMenuSharedMetricsOp \/ CopyForDPIOp

SpecMetrics == InitMetrics /\ [][MetricsNext]_vars

(***************************************************************************)
(* menuSpecificMetrics (owner-drawn menu code), under SpecAccel            *)
(***************************************************************************)
\* The text extents of accelerators are 0, 16, ... 16 * MaxExtent pixels wide
\* and high.
MaxExtent == 1

\* The generic Max of the toolkit.
Max(a, b) == IF a >= b THEN a ELSE b

\* win.SIZE{}
ZeroSize == Size(0, 0)

\* The extents theme.textExtent answers for an accelerator text.
Extents == {Size(16 * w, 16 * h) : w, h \in 0..MaxExtent}

\* menuSpecificMetrics.reset
reset(pm) == ZeroSize

\* A defective measureAccelTextExtent that keeps the last extent measured.
measureAccelKeepsLast(pm, hasShortcut, themeErr, canvasErr, extentErr, extent) ==
    IF ~hasShortcut \/ themeErr \/ canvasErr \/ extentErr
    THEN pm
    ELSE extent

\* menuSpecificMetrics.measureAccelTextExtent: pm is maxAccelTextExtent, the
\* other parameters say whether the action has a shortcut, which of the
\* theme, canvas and text extent queries fail, and the extent of the text.
measureAccelTextExtent(pm, hasShortcut, themeErr, canvasErr, extentErr, extent) ==
    IF ~hasShortcut THEN pm
    ELSE IF themeErr THEN pm
    ELSE IF canvasErr THEN pm
    ELSE IF extentErr THEN pm
    ELSE Size(Max(pm.CX, extent.CX), Max(pm.CY, extent.CY))

\* The record kept of a call on the per-menu metrics: what was passed, the
\* extent held before the call, and the extents measured since the last reset.
AccelOp(op, pre, hasShortcut, failed, extent, measured) ==
    [op |-> op, pre |-> pre, hasShortcut |-> hasShortcut, failed |-> failed,
     extent |-> extent, measured |-> measured]

\* The menu starts a fresh measurement pass.
ResetOp ==
    /\ mm' = reset(mm)
    /\ menuOp' = AccelOp("reset", mm, FALSE, FALSE, ZeroSize, {})
    /\ UNCHANGED <<ml, item, eventVars, mnemonicVars, metricsVars, iconVars>>

\* The menu measures the accelerator text of one of its actions.
MeasureAccelTextExtentOp ==
    \E hasShortcut, themeErr, canvasErr, extentErr \in BOOLEAN, extent \in Extents :
        LET failed == themeErr \/ canvasErr \/ extentErr
        IN  /\ mm' = measureAccelTextExtent(mm, hasShortcut, themeErr, canvasErr,
                                            extentErr, extent)
            /\ menuOp' = AccelOp("measureAccelTextExtent", mm, hasShortcut, failed,
                                 extent,
                                 IF hasShortcut /\ ~failed
                                 THEN menuOp.measured \cup {extent}
                                 ELSE menuOp.measured)
            /\ UNCHANGED <<ml, item, eventVars, mnemonicVars, metricsVars, iconVars>>

AccelInit ==
    /\ mm = ZeroSize
    /\ ml = [contentSize |-> ZeroSize]
    /\ item = [separator |-> FALSE]
    /\ menuOp = AccelOp("none", ZeroSize, FALSE, FALSE, ZeroSize, {})

InitAccel == EventInit /\ MnemonicIdle /\ MetricsIdle /\ AccelInit /\ IconIdle

AccelNext == ResetOp \/ MeasureAccelTextExtentOp

SpecAccel == InitAccel /\ [][AccelNext]_vars

(***************************************************************************)
(* menuItemLayout (owner-drawn menu code), under SpecLayout                *)
(***************************************************************************)
\* The content handler measures contents 0, 10, ... 10 * MaxContent pixels
\* wide and 0, 16, ... 16 * MaxContent pixels high.
MaxContent == 1

\* win.RECT
RECT(l, t, r, b) == [Left |-> l, Top |-> t, Right |-> r, Bottom |-> b]
ZeroRect == RECT(0, 0, 0, 0)
Width(r) == r.Right - r.Left
Height(r) == r.Bottom - r.Top

\* n / 2 on Go integers: the quotient truncated toward zero.
GoHalf(n) == IF n >= 0 THEN n \div 2 ELSE -((-n) \div 2)

\* stripMargins: r with the margins m removed on each side.
stripMargins(r, m) ==
    RECT(r.Left + m.LeftWidth, r.Top + m.TopHeight, r.Right - m.RightWidth,
         r.Bottom - m.BottomHeight)

\* menuItemLayout{}
ZeroLayout ==
    [contentSize |-> ZeroSize, combinedContentSize |-> ZeroSize,
     checkboxRect |-> ZeroRect, checkboxBgRect |-> ZeroRect,
     contentRect |-> ZeroRect, gutterRect |-> ZeroRect,
     selectionRect |-> ZeroRect, separatorRect |-> ZeroRect,
     chevronRect |-> ZeroRect, chevronClipRect |-> ZeroRect]

\* What measure hands back: the layout after the call, the size returned and
\* whether the content handler's OnMeasure was called.
Measured(l, cx, cy, onMeasure) ==
    [layout |-> l, cx |-> cx, cy |-> cy, onMeasure |-> onMeasure]

\* A defective measure that measures the content of a separator as well
\* before it returns the separator size.
measureSeparatorContent(l, sm, pm, isSeparator, themeErr, canvasErr, contentW, contentH) ==
    LET contentSize == Size(contentW, contentH)
        combined == Size(addMargins(contentSize, sm.contentMargins).CX
                             + sm.combinedChevronSize.CX,
                         addMargins(contentSize, sm.contentMargins).CY)
        measuredLayout == [l EXCEPT !.contentSize = contentSize,
                                    !.combinedContentSize = combined]
    IN  IF isSeparator
        THEN Measured(measuredLayout, sm.combinedSeparatorSize.CX,
                      sm.combinedSeparatorSize.CY, TRUE)
        ELSE Measured(measuredLayout,
                      sm.combinedCheckBgSize.CX
                          + addMargins(combined, sm.itemMargins).CX,
                      Max(sm.combinedCheckBgSize.CY,
                          Max(addMargins(combined, sm.itemMargins).CY,
                              sm.combinedChevronSize.CY)), TRUE)

\* A defective measure that reserves the accelerator column once, not twice.
measureSingleAccel(l, sm, pm, isSeparator, themeErr, canvasErr, contentW, contentH) ==
    LET contentSize == Size(IF pm.CX > 0 THEN contentW + pm.CX ELSE contentW,
                            IF pm.CX > 0 THEN Max(contentH, pm.CY) ELSE contentH)
        combined == Size(addMargins(contentSize, sm.contentMargins).CX
                             + sm.combinedChevronSize.CX,
                         addMargins(contentSize, sm.contentMargins).CY)
    IN  IF isSeparator
        THEN Measured(l, sm.combinedSeparatorSize.CX, sm.combinedSeparatorSize.CY,
                      FALSE)
        ELSE IF themeErr \/ canvasErr
        THEN Measured(l, 0, 0, FALSE)
        ELSE Measured([l EXCEPT !.contentSize = contentSize,
                                !.combinedContentSize = combined],
                      sm.combinedCheckBgSize.CX
                          + addMargins(combined, sm.itemMargins).CX,
                      Max(sm.combinedCheckBgSize.CY,
                          Max(addMargins(combined, sm.itemMargins).CY,
                              sm.combinedChevronSize.CY)), TRUE)

\* menuItemLayout.measure: l is the layout, sm the shared metrics of the item,
\* pm the maxAccelTextExtent of its menu; themeErr and canvasErr say whether
\* ThemeForClass and newCanvasFromWindow fail, contentW and contentH are what
\* the handler's OnMeasure returns.
measure(l, sm, pm, isSeparator, themeErr, canvasErr, contentW, contentH) ==
    IF isSeparator
    THEN Measured(l, sm.combinedSeparatorSize.CX, sm.combinedSeparatorSize.CY, FALSE)
    ELSE IF themeErr
    THEN Measured(l, 0, 0, FALSE)
    ELSE IF canvasErr
    THEN Measured(l, 0, 0, FALSE)
    ELSE LET contentCX == IF pm.CX > 0 THEN contentW + 2 * pm.CX ELSE contentW
             contentCY == IF pm.CX > 0 THEN Max(contentH, pm.CY) ELSE contentH
             contentSize == Size(contentCX, contentCY)
             withMargins == addMargins(contentSize, sm.contentMargins)
             combinedContentSize ==
                 Size(withMargins.CX + sm.combinedChevronSize.CX, withMargins.CY)
             combinedContentItemSize ==
                 addMargins(combinedContentSize, sm.itemMargins)
         IN  Measured([l EXCEPT !.contentSize = contentSize,
                                !.combinedContentSize = combinedContentSize],
                      sm.combinedCheckBgSize.CX + combinedContentItemSize.CX,
                      Max(sm.combinedCheckBgSize.CY,
                          Max(combinedContentItemSize.CY, sm.combinedChevronSize.CY)),
                      TRUE)

\* A defective layout that does not advance past the checkbox background
\* before it places the gutter's right edge.
layoutGutterSkipsCheck(l, sm, rect) ==
    LET y == rect.Top
        h == Height(rect)
        offsetCheck == GoHalf(h - sm.combinedCheckBgSize.CY)
        checkboxBg == RECT(rect.Left, y + offsetCheck,
                           rect.Left + sm.combinedCheckBgSize.CX,
                           y + sm.combinedCheckBgSize.CY + offsetCheck)
        checkboxBgRect == stripMargins(checkboxBg, sm.checkBgMargins)
        x == rect.Left + sm.contentMargins.LeftWidth
        offsetSeparator == GoHalf(h - sm.combinedSeparatorSize.CY)
        offsetContent == GoHalf(h - l.combinedContentSize.CY)
        offsetChevron == GoHalf(h - sm.combinedChevronSize.CY)
        chevronClipRect == RECT(rect.Right - sm.combinedChevronSize.CX,
                                y + offsetChevron, rect.Right,
                                y + sm.combinedChevronSize.CY + offsetChevron)
    IN  [l EXCEPT
           !.selectionRect = rect,
           !.checkboxBgRect = checkboxBgRect,
           !.checkboxRect = stripMargins(checkboxBgRect, sm.checkMargins),
           !.gutterRect = RECT(rect.Left, y, x, y + h),
           !.separatorRect =
               stripMargins(RECT(x, y + offsetSeparator, rect.Right,
                                 rect.Bottom + offsetSeparator), sm.itemMargins),
           !.contentRect =
               stripMargins(RECT(x, y + offsetContent, rect.Right,
                                 y + l.combinedContentSize.CY + offsetContent),
                            sm.contentMargins),
           !.chevronClipRect = chevronClipRect,
           !.chevronRect = stripMargins(chevronClipRect, sm.chevronMargins)]

\* A defective layout that ends the content where the chevron starts.
layoutContentStopsAtChevron(l, sm, rect) ==
    LET y == rect.Top
        h == Height(rect)
        offsetCheck == GoHalf(h - sm.combinedCheckBgSize.CY)
        checkboxBg == RECT(rect.Left, y + offsetCheck,
                           rect.Left + sm.combinedCheckBgSize.CX,
                           y + sm.combinedCheckBgSize.CY + offsetCheck)
        checkboxBgRect == stripMargins(checkboxBg, sm.checkBgMargins)
        x == rect.Left + Width(checkboxBg) + sm.contentMargins.LeftWidth
        offsetSeparator == GoHalf(h - sm.combinedSeparatorSize.CY)
        offsetContent == GoHalf(h - l.combinedContentSize.CY)
        offsetChevron == GoHalf(h - sm.combinedChevronSize.CY)
        chevronClipRect == RECT(rect.Right - sm.combinedChevronSize.CX,
                                y + offsetChevron, rect.Right,
                                y + sm.combinedChevronSize.CY + offsetChevron)
    IN  [l EXCEPT
           !.selectionRect = rect,
           !.checkboxBgRect = checkboxBgRect,
           !.checkboxRect = stripMargins(checkboxBgRect, sm.checkMargins),
           !.gutterRect = RECT(rect.Left, y, x, y + h),
           !.separatorRect =
               stripMargins(RECT(x, y + offsetSeparator, rect.Right,
                                 rect.Bottom + offsetSeparator), sm.itemMargins),
           !.contentRect =
               stripMargins(RECT(x, y + offsetContent,
                                 rect.Right - sm.combinedChevronSize.CX,
                                 y + l.combinedContentSize.CY + offsetContent),
                            sm.contentMargins),
           !.chevronClipRect = chevronClipRect,
           !.chevronRect = stripMargins(chevronClipRect, sm.chevronMargins)]

\* menuItemLayout.layout: the rectangles of the item's parts within rect, for
\* the shared metrics sm and the combined content size measure left in l.
layout(l, sm, rect) ==
    LET y == rect.Top
        h == Height(rect)
        offsetCheck == GoHalf(h - sm.combinedCheckBgSize.CY)
        checkboxBg == RECT(rect.Left, y + offsetCheck,
                           rect.Left + sm.combinedCheckBgSize.CX,
                           y + sm.combinedCheckBgSize.CY + offsetCheck)
        checkboxBgRect == stripMargins(checkboxBg, sm.checkBgMargins)
        x == rect.Left + Width(checkboxBg) + sm.contentMargins.LeftWidth
        offsetSeparator == GoHalf(h - sm.combinedSeparatorSize.CY)
        offsetContent == GoHalf(h - l.combinedContentSize.CY)
        offsetChevron == GoHalf(h - sm.combinedChevronSize.CY)
        chevronClipRect == RECT(rect.Right - sm.combinedChevronSize.CX,
                                y + offsetChevron, rect.Right,
                                y + sm.combinedChevronSize.CY + offsetChevron)
    IN  [l EXCEPT
           !.selectionRect = rect,
           !.checkboxBgRect = checkboxBgRect,
           !.checkboxRect = stripMargins(checkboxBgRect, sm.checkMargins),
           !.gutterRect = RECT(rect.Left, y, x, y + h),
           !.separatorRect =
               stripMargins(RECT(x, y + offsetSeparator, rect.Right,
                                 rect.Bottom + offsetSeparator), sm.itemMargins),
           !.contentRect =
               stripMargins(RECT(x, y + offsetContent, rect.Right,
                                 y + l.combinedContentSize.CY + offsetContent),
                            sm.contentMargins),
           !.chevronClipRect = chevronClipRect,
           !.chevronRect = stripMargins(chevronClipRect, sm.chevronMargins)]

\* The sizes the handler's OnMeasure returns.
ContentSizes == {Size(10 * w, 16 * h) : w, h \in 0..MaxContent}

\* The top left corners and the sizes of the item rectangles layout is given.
ItemOrigins == {<<0, 0>>, <<3, 7>>}
ItemSizes == {Size(0, 0), Size(30, 10), Size(300, 100)}

\* The themes the item is laid out under: the border sizes grow with the
\* part sizes.
LayoutThemes == {ThemeOf(a, b, a, {}) : a, b \in 0..MaxMetric}

\* The pixel densities of the menus the item is shown in.
LayoutDPIs == {BaseDPI, BaseDPI + 48}

\* The record kept of a call on the layout: the content sizes the layout held
\* before the call, the rectangle passed to layout, and for measure whether
\* the theme or the canvas failed, what OnMeasure returned if it was called,
\* and the size measure returned.
LayoutCall(op, l, rect, failed, contentW, contentH, m) ==
    [op |-> op, preContentSize |-> l.contentSize,
     preCombinedContentSize |-> l.combinedContentSize, rect |-> rect,
     failed |-> failed,
     contentW |-> IF m.onMeasure THEN contentW ELSE 0,
     contentH |-> IF m.onMeasure THEN contentH ELSE 0,
     cx |-> m.cx, cy |-> m.cy, onMeasure |-> m.onMeasure]

\* odi.onMeasure: the system asks for the item's size, which it does before
\* it first asks for the item to be drawn.
MeasureOp ==
    /\ ml.selectionRect = ZeroRect
    /\ \E themeErr, canvasErr \in BOOLEAN, content \in ContentSizes :
        LET m == measure(ml, smCopy, mm, item.separator, themeErr, canvasErr,
                         content.CX, content.CY)
        IN  /\ ml' = m.layout
            /\ menuOp' = LayoutCall("measure", ml, ZeroRect,
                                    ~item.separator /\ (themeErr \/ canvasErr),
                                    content.CX, content.CY, m)
            /\ UNCHANGED <<mm, item, eventVars, mnemonicVars, metricsVars, iconVars>>

\* layout is called with an item rectangle: one of ItemSizes, or of the size
\* the last measure returned.
LayoutOp ==
    \E o \in ItemOrigins,
       sz \in ItemSizes \cup (IF menuOp.op = "measure"
                              THEN {Size(menuOp.cx, menuOp.cy)} ELSE {}) :
        LET rect == RECT(o[1], o[2], o[1] + sz.CX, o[2] + sz.CY)
        IN  /\ ml' = layout(ml, smCopy, rect)
            /\ menuOp' = LayoutCall("layout", ml, rect, FALSE, 0, 0,
                                    Measured(ml, 0, 0, FALSE))
            /\ UNCHANGED <<mm, item, eventVars, mnemonicVars, metricsVars, iconVars>>

LayoutInit ==
    /\ theme \in LayoutThemes
    /\ sm96 = newMenuSharedMetrics(theme)
    /\ smCopy \in {CopyForDPI(sm96, dpi) : dpi \in LayoutDPIs}
    /\ smOp = MetricsOp("none", NoMetrics, 0, FALSE, NoMetrics, NoMetrics)
    /\ mm \in Extents
    /\ ml = ZeroLayout
    /\ item \in {[separator |-> b] : b \in BOOLEAN}
    /\ menuOp = LayoutCall("none", ZeroLayout, ZeroRect, FALSE, 0, 0,
                           Measured(ZeroLayout, 0, 0, FALSE))

InitLayout == EventInit /\ MnemonicIdle /\ LayoutInit /\ IconIdle

LayoutNext == MeasureOp \/ LayoutOp

SpecLayout == InitLayout /\ [][LayoutNext]_vars

(***************************************************************************)
(* itemStateToThemeStates (owner-drawn menu code), under SpecThemeStates   *)
(***************************************************************************)
\* The item states are the numbers of StateBits bits.
StateBits == 7

\* The ODS_ bits of win.DRAWITEMSTRUCT.ItemState the code reads.
ODS_SELECTED == 1
ODS_GRAYED == 2
ODS_DISABLED == 4
ODS_CHECKED == 8
ODS_HOTLIGHT == 64

\* The state identifiers of the menu parts (vsstyle).
MPI_NORMAL == 1
MSM_NORMAL == 1
MSM_DISABLED == 2
MC_CHECKMARKNORMAL == 1
MC_BULLETNORMAL == 3
MCB_DISABLED == 1
MCB_NORMAL == 2

\* a & b on unsigned integers.
RECURSIVE BitAnd(_, _)
BitAnd(a, b) ==
    IF a = 0 \/ b = 0 THEN 0
    ELSE (a % 2) * (b % 2) + 2 * BitAnd(a \div 2, b \div 2)

\* a | b on unsigned integers.
BitOr(a, b) == a + b - BitAnd(a, b)

\* themeStates{}
ZeroThemeStates ==
    [checkBg |-> 0, checkFg |-> 0, checked |-> FALSE, item |-> 0, chevron |-> 0]

\* A defective itemStateToThemeStates that sets a disabled item to the
\* disabled identifier whether it is hot or not.
themeStatesDisabledNotHot(state, exclusive) ==
    LET checked == BitAnd(state, ODS_CHECKED) # 0
        disabled == BitAnd(state, BitOr(ODS_DISABLED, ODS_GRAYED)) # 0
        hot == BitAnd(state, BitOr(ODS_HOTLIGHT, ODS_SELECTED)) # 0
        itemId == IF disabled THEN MPI_NORMAL + 2
                  ELSE IF hot THEN MPI_NORMAL + 1 ELSE MPI_NORMAL
        checkFg == (IF exclusive THEN MC_BULLETNORMAL ELSE MC_CHECKMARKNORMAL)
                       + (IF disabled THEN 1 ELSE 0)
    IN  [checked |-> checked,
         item |-> itemId,
         chevron |-> IF disabled THEN MSM_DISABLED ELSE MSM_NORMAL,
         checkBg |-> IF ~checked THEN 0
                     ELSE IF disabled THEN MCB_DISABLED ELSE MCB_NORMAL,
         checkFg |-> IF ~checked THEN 0 ELSE checkFg]

\* A defective itemStateToThemeStates that draws the checkmark for an
\* exclusive action as well.
themeStatesNoBullet(state, exclusive) ==
    LET checked == BitAnd(state, ODS_CHECKED) # 0
        disabled == BitAnd(state, BitOr(ODS_DISABLED, ODS_GRAYED)) # 0
        hot == BitAnd(state, BitOr(ODS_HOTLIGHT, ODS_SELECTED)) # 0
    IN  [checked |-> checked,
         item |-> MPI_NORMAL + (IF hot THEN 1 ELSE 0) + (IF disabled THEN 2 ELSE 0),
         chevron |-> IF disabled THEN MSM_DISABLED ELSE MSM_NORMAL,
         checkBg |-> IF ~checked THEN 0
                     ELSE IF disabled THEN MCB_DISABLED ELSE MCB_NORMAL,
         checkFg |-> IF ~checked THEN 0
                     ELSE MC_CHECKMARKNORMAL + (IF disabled THEN 1 ELSE 0)]

\* ownerDrawnMenuItemInfo.itemStateToThemeStates for the item state and for
\* odi.action.Exclusive().
itemStateToThemeStates(state, exclusive) ==
    LET checked == BitAnd(state, ODS_CHECKED) # 0
        disabled == BitAnd(state, BitOr(ODS_DISABLED, ODS_GRAYED)) # 0
        hot == BitAnd(state, BitOr(ODS_HOTLIGHT, ODS_SELECTED)) # 0
        item0 == MPI_NORMAL
        item1 == IF hot THEN item0 + 1 ELSE item0
        item2 == IF disabled THEN item1 + 2 ELSE item1
        result == [ZeroThemeStates EXCEPT
                     !.checked = checked,
                     !.item = item2,
                     !.chevron = IF disabled THEN MSM_DISABLED ELSE MSM_NORMAL]
        checkFg0 == IF exclusive THEN MC_BULLETNORMAL ELSE MC_CHECKMARKNORMAL
    IN  IF ~checked
        THEN result
        ELSE IF disabled
        THEN [result EXCEPT !.checkBg = MCB_DISABLED, !.checkFg = checkFg0 + 1]
        ELSE [result EXCEPT !.checkBg = MCB_NORMAL, !.checkFg = checkFg0]

\* The item states the system passes.
RawStates == 0..(2 ^ StateBits - 1)

\* The record kept of a call of itemStateToThemeStates.
ThemeStatesCall(op, state, result) == [op |-> op, state |-> state, result |-> result]

\* The theme states of the item are derived from an item state.
ItemStateToThemeStatesOp ==
    \E state \in RawStates :
        /\ menuOp' = ThemeStatesCall("itemStateToThemeStates", state,
                                     itemStateToThemeStates(state, item.exclusive))
        /\ UNCHANGED <<mm, ml, item, eventVars, mnemonicVars, metricsVars, iconVars>>

ThemeStatesInit ==
    /\ mm = ZeroSize
    /\ ml = ZeroLayout
    /\ item \in {[separator |-> FALSE, exclusive |-> b] : b \in BOOLEAN}
    /\ menuOp = ThemeStatesCall("none", 0, ZeroThemeStates)

InitThemeStates == EventInit /\ MnemonicIdle /\ MetricsIdle /\ ThemeStatesInit /\ IconIdle

ThemeStatesNext == ItemStateToThemeStatesOp

SpecThemeStates == InitThemeStates /\ [][ThemeStatesNext]_vars

(***************************************************************************)
(* onDraw and BufferedPaint (owner-drawn menu code), under SpecDraw        *)
(***************************************************************************)
\* No *BufferedPaint (nil).
NoPaint == [h |-> 0, dc |-> 0, begun |-> FALSE]

\* beginBufferedPaint: a BufferedPaint holding the buffer and its device
\* context, or nil when the system begins none.
beginBufferedPaint(beginErr) ==
    IF beginErr THEN NoPaint ELSE [h |-> 1, dc |-> 1, begun |-> TRUE]

\* BufferedPaint.end: the buffer is handed back; h and dc are cleared unless
\* the system reports a failure.
end(bp, endErr) == IF endErr THEN bp ELSE [bp EXCEPT !.h = 0, !.dc = 0]

\* A call onDraw makes on the theme, the canvas, the buffer or the target
\* device context: its name, the menu part and state identifier drawn, and
\* the rectangle passed.
Call(name, part, stateId, rect) ==
    [call |-> name, part |-> part, stateId |-> stateId, rect |-> rect]

\* What onDraw leaves behind: the layout, where it returned, the
\* BufferedPaint as it is at the return, and the calls it made in order, the
\* deferred ones last.
Drawn(l, exit, bp, calls) == [layout |-> l, exit |-> exit, bp |-> bp, calls |-> calls]

\* A defective onDraw that ends the buffered paint at the end of its body
\* instead of deferring the call.
onDrawEndsAtCompletion(l, sm, rect, it, state, themeErr, beginErr, canvasErr, bitmapErr, endErr) ==
    LET laid == layout(l, sm, rect)
        bp == beginBufferedPaint(beginErr)
        ts == itemStateToThemeStates(state, it.exclusive)
        begin == <<Call("BeginBufferedPaint", "", 0, rect)>>
        deferredClip ==
            IF it.submenu
            THEN <<Call("ExcludeClipRect", "", 0, laid.chevronClipRect)>>
            ELSE <<>>
        deferredEnd == <<Call("EndBufferedPaint", "", 0, ZeroRect)>>
        deferredDispose == <<Call("canvas.Dispose", "", 0, ZeroRect)>>
        backgrounds ==
            <<Call("drawBackground", "MENU_POPUPBACKGROUND", 0, rect),
              Call("drawBackground", "MENU_POPUPGUTTER", 0, laid.gutterRect)>>
        separator ==
            <<Call("drawBackground", "MENU_POPUPSEPARATOR", 0, laid.separatorRect)>>
        selection ==
            <<Call("drawBackground", "MENU_POPUPITEM", ts.item, laid.selectionRect)>>
        check ==
            IF ts.checked
            THEN <<Call("drawBackground", "MENU_POPUPCHECKBACKGROUND", ts.checkBg,
                        laid.checkboxBgRect),
                   Call("drawBackground", "MENU_POPUPCHECK", ts.checkFg,
                        laid.checkboxRect)>>
            ELSE IF it.image /\ ~bitmapErr
            THEN <<Call("DrawBitmapWithOpacityPixels", "", 0, laid.checkboxRect)>>
            ELSE <<>>
        content == <<Call("OnDraw", "", ts.item, laid.contentRect)>>
        chevron ==
            IF it.submenu
            THEN <<Call("drawBackground", "MENU_POPUPSUBMENU", ts.chevron,
                        laid.chevronRect)>>
            ELSE <<>>
    IN  IF themeErr
        THEN Drawn(laid, "theme", NoPaint, deferredClip)
        ELSE IF bp = NoPaint
        THEN Drawn(laid, "begin", NoPaint, begin \o deferredClip)
        ELSE IF canvasErr
        THEN Drawn(laid, "canvas", bp,
                   begin \o deferredClip)
        ELSE IF it.separator
        THEN Drawn(laid, "separator", bp,
                   begin \o backgrounds \o separator \o deferredDispose
                       \o deferredClip)
        ELSE Drawn(laid, "done", end(bp, endErr),
                   begin \o backgrounds \o selection \o check \o content \o chevron
                       \o deferredDispose \o deferredEnd \o deferredClip)

\* A defective onDraw that defers the clip exclusion after it has begun the
\* buffered paint, so that it runs before the paint is ended and not at all
\* when onDraw returns earlier.
onDrawClipsBeforeEnd(l, sm, rect, it, state, themeErr, beginErr, canvasErr, bitmapErr, endErr) ==
    LET laid == layout(l, sm, rect)
        bp == beginBufferedPaint(beginErr)
        ts == itemStateToThemeStates(state, it.exclusive)
        begin == <<Call("BeginBufferedPaint", "", 0, rect)>>
        deferredClip ==
            IF it.submenu
            THEN <<Call("ExcludeClipRect", "", 0, laid.chevronClipRect)>>
            ELSE <<>>
        deferredEnd == <<Call("EndBufferedPaint", "", 0, ZeroRect)>>
        deferredDispose == <<Call("canvas.Dispose", "", 0, ZeroRect)>>
        backgrounds ==
            <<Call("drawBackground", "MENU_POPUPBACKGROUND", 0, rect),
              Call("drawBackground", "MENU_POPUPGUTTER", 0, laid.gutterRect)>>
        separator ==
            <<Call("drawBackground", "MENU_POPUPSEPARATOR", 0, laid.separatorRect)>>
        selection ==
            <<Call("drawBackground", "MENU_POPUPITEM", ts.item, laid.selectionRect)>>
        check ==
            IF ts.checked
            THEN <<Call("drawBackground", "MENU_POPUPCHECKBACKGROUND", ts.checkBg,
                        laid.checkboxBgRect),
                   Call("drawBackground", "MENU_POPUPCHECK", ts.checkFg,
                        laid.checkboxRect)>>
            ELSE IF it.image /\ ~bitmapErr
            THEN <<Call("DrawBitmapWithOpacityPixels", "", 0, laid.checkboxRect)>>
            ELSE <<>>
        content == <<Call("OnDraw", "", ts.item, laid.contentRect)>>
        chevron ==
            IF it.submenu
            THEN <<Call("drawBackground", "MENU_POPUPSUBMENU", ts.chevron,
                        laid.chevronRect)>>
            ELSE <<>>
    IN  IF themeErr
        THEN Drawn(laid, "theme", NoPaint, <<>>)
        ELSE IF bp = NoPaint
        THEN Drawn(laid, "begin", NoPaint, begin)
        ELSE IF canvasErr
        THEN Drawn(laid, "canvas", end(bp, endErr),
                   begin \o deferredClip \o deferredEnd)
        ELSE IF it.separator
        THEN Drawn(laid, "separator", end(bp, endErr),
                   begin \o backgrounds \o separator \o deferredDispose
                       \o deferredClip \o deferredEnd)
        ELSE Drawn(laid, "done", end(bp, endErr),
                   begin \o backgrounds \o selection \o check \o content \o chevron
                       \o deferredDispose \o deferredClip \o deferredEnd)

\* ownerDrawnMenuItemInfo.onDraw for the layout l, the shared metrics sm, the
\* item rectangle and item state of the DRAWITEMSTRUCT and the action it; the
\* flags say whether ThemeForClass, beginBufferedPaint, bp.Canvas,
\* iconCache.Bitmap and EndBufferedPaint fail. The deferred calls run at each
\* return, the last deferred first.
onDraw(l, sm, rect, it, state, themeErr, beginErr, canvasErr, bitmapErr, endErr) ==
    LET laid == layout(l, sm, rect)
        bp == beginBufferedPaint(beginErr)
        ts == itemStateToThemeStates(state, it.exclusive)
        begin == <<Call("BeginBufferedPaint", "", 0, rect)>>
        deferredClip ==
            IF it.submenu
            THEN <<Call("ExcludeClipRect", "", 0, laid.chevronClipRect)>>
            ELSE <<>>
        deferredEnd == <<Call("EndBufferedPaint", "", 0, ZeroRect)>>
        deferredDispose == <<Call("canvas.Dispose", "", 0, ZeroRect)>>
        backgrounds ==
            <<Call("drawBackground", "MENU_POPUPBACKGROUND", 0, rect),
              Call("drawBackground", "MENU_POPUPGUTTER", 0, laid.gutterRect)>>
        separator ==
            <<Call("drawBackground", "MENU_POPUPSEPARATOR", 0, laid.separatorRect)>>
        selection ==
            <<Call("drawBackground", "MENU_POPUPITEM", ts.item, laid.selectionRect)>>
        check ==
            IF ts.checked
            THEN <<Call("drawBackground", "MENU_POPUPCHECKBACKGROUND", ts.checkBg,
                        laid.checkboxBgRect),
                   Call("drawBackground", "MENU_POPUPCHECK", ts.checkFg,
                        laid.checkboxRect)>>
            ELSE IF it.image /\ ~bitmapErr
            THEN <<Call("DrawBitmapWithOpacityPixels", "", 0, laid.checkboxRect)>>
            ELSE <<>>
        content == <<Call("OnDraw", "", ts.item, laid.contentRect)>>
        chevron ==
            IF it.submenu
            THEN <<Call("drawBackground", "MENU_POPUPSUBMENU", ts.chevron,
                        laid.chevronRect)>>
            ELSE <<>>
    IN  IF themeErr
        THEN Drawn(laid, "theme", NoPaint, deferredClip)
        ELSE IF bp = NoPaint
        THEN Drawn(laid, "begin", NoPaint, begin \o deferredClip)
        ELSE IF canvasErr
        THEN Drawn(laid, "canvas", end(bp, endErr),
                   begin \o deferredEnd \o deferredClip)
        ELSE IF it.separator
        THEN Drawn(laid, "separator", end(bp, endErr),
                   begin \o backgrounds \o separator \o deferredDispose
                       \o deferredEnd \o deferredClip)
        ELSE Drawn(laid, "done", end(bp, endErr),
                   begin \o backgrounds \o selection \o check \o content \o chevron
                       \o deferredDispose \o deferredEnd \o deferredClip)

\* The themes the item is drawn under.
DrawThemes == {ThemeOf(a, a, a, {}) : a \in 0..MaxMetric}

\* The item states the item is drawn in.
DrawStates ==
    {0, ODS_CHECKED, ODS_SELECTED, BitOr(ODS_CHECKED, ODS_DISABLED)}

\* The actions of the items drawn: a separator, or an action that may open a
\* submenu, be exclusive and have an image.
DrawItems ==
    {[separator |-> TRUE, submenu |-> FALSE, exclusive |-> FALSE, image |-> FALSE]}
        \cup {[separator |-> FALSE, submenu |-> m, exclusive |-> x, image |-> i] :
                  m, x, i \in BOOLEAN}

\* The calls of onDraw that may fail, and the sets of them that fail in one
\* onDraw: at most MaxFailures of them.
DrawSteps ==
    {"ThemeForClass", "beginBufferedPaint", "Canvas", "Bitmap", "EndBufferedPaint"}
DrawFailures == {S \in SUBSET DrawSteps : Cardinality(S) <= MaxFailures}

\* The record kept of a call of onDraw.
DrawCall(op, rect, state, d) ==
    [op |-> op, rect |-> rect, state |-> state, exit |-> d.exit, bp |-> d.bp,
     calls |-> d.calls]

\* The system asks for the item to be drawn.
DrawOp ==
    \E sz \in ItemSizes, state \in DrawStates, failing \in DrawFailures :
        LET rect == RECT(3, 7, 3 + sz.CX, 7 + sz.CY)
            d == onDraw(ml, smCopy, rect, item, state, "ThemeForClass" \in failing,
                        "beginBufferedPaint" \in failing, "Canvas" \in failing,
                        "Bitmap" \in failing, "EndBufferedPaint" \in failing)
        IN  /\ ml' = d.layout
            /\ menuOp' = DrawCall("onDraw", rect, state, d)
            /\ UNCHANGED <<mm, item, eventVars, mnemonicVars, metricsVars, iconVars>>

DrawInit ==
    /\ theme \in DrawThemes
    /\ sm96 = newMenuSharedMetrics(theme)
    /\ smCopy \in {CopyForDPI(sm96, dpi) : dpi \in LayoutDPIs}
    /\ smOp = MetricsOp("none", NoMetrics, 0, FALSE, NoMetrics, NoMetrics)
    /\ mm = ZeroSize
    /\ ml = ZeroLayout
    /\ item \in DrawItems
    /\ menuOp = DrawCall("none", ZeroRect, 0, Drawn(ZeroLayout, "none", NoPaint, <<>>))

InitDraw == EventInit /\ MnemonicIdle /\ DrawInit /\ IconIdle

DrawNext == DrawOp

SpecDraw == InitDraw /\ [][DrawNext]_vars

(***************************************************************************)
(* NotifyIcon and its registries (notifyicon.go), under SpecIcon           *)
(***************************************************************************)
\* The number of NotifyIcon objects the program creates.
MaxIcons == 1

\* shellIcon.id == nil
NilId == -1

\* The icon identifiers Shell_NotifyIcon leaves in nid.UID after NIM_ADD.
ShellIds == {1, 65538}

\* uint16(v)
uint16(v) == v % 65536

\* The keys notifyIconIDs can hold.
IDKeys == {uint16(v) : v \in ShellIds}

\* The nil *NotifyIcon.
NoIcon == 0

\* The images and tool tip texts given to the setters; "a<NUL>b" stands for a
\* text with an embedded NUL, which syscall.UTF16FromString rejects.
NilImage == 0
Images == {NilImage, 1}
ToolTips == {"", "tip", "a<NUL>b"}

NIM_ADD == "NIM_ADD"
NIM_MODIFY == "NIM_MODIFY"
NIM_DELETE == "NIM_DELETE"
NIM_SETVERSION == "NIM_SETVERSION"
NOTIFYICON_VERSION_4 == 4

\* copyStringToSlice fails where UTF16FromString does.
copyStringToSliceFails(src) == src = "a<NUL>b"

\* The nil *niCmd.
NoCmd == [op |-> "nil"]

\* shellNotificationIcon.newCmd: nil when the icon has no id and op is not
\* NIM_ADD; otherwise a command with the show-tip flag and the icon's id.
newCmd(i, op) ==
    IF i.id = NilId /\ op # NIM_ADD THEN NoCmd
    ELSE [op |-> op, hWnd |-> i.hWnd, uid |-> IF i.id # NilId THEN i.id ELSE 0,
          flags |-> {"NIF_SHOWTIP"}, hidden |-> FALSE, hIcon |-> 0, tip |-> "",
          version |-> 0]

\* niCmd.setCallbackMessage
setCallbackMessage(cmd) == [cmd EXCEPT !.flags = @ \cup {"NIF_MESSAGE"}]

\* niCmd.setVisible: the state flag and mask are set, NIS_HIDDEN iff not v.
setVisible(cmd, v) == [cmd EXCEPT !.flags = @ \cup {"NIF_STATE"}, !.hidden = ~v]

\* niCmd.setIcon
setIcon(cmd, hIcon) == [cmd EXCEPT !.flags = @ \cup {"NIF_ICON"}, !.hIcon = hIcon]

\* niCmd.setToolTip: the command afterwards and whether the copy failed.
setToolTip(cmd, tt) ==
    IF copyStringToSliceFails(tt) THEN [err |-> TRUE, cmd |-> cmd]
    ELSE [err |-> FALSE,
          cmd |-> [cmd EXCEPT !.flags = @ \cup {"NIF_TIP"}, !.tip = tt]]

\* NotifyIcon.getHICON: 0 for no image or when the icon cache fails.
getHICON(icon, cacheErr) == IF icon = NilImage \/ cacheErr THEN 0 ELSE icon

\* The result of a call that talks to the shell: the error, the
\* shellNotificationIcon {id, hWnd} afterwards, and the commands handed to
\* Shell_NotifyIcon in order, each with whether it succeeded.
Executed(err, i, issued) == [err |-> err, shellIcon |-> i, issued |-> issued]

\* niCmd.execute for a command of the shell icon i: a failing command returns
\* the error; a successful NIM_ADD stores the UID as the icon's id and then
\* executes NIM_SETVERSION, whose error it returns. out is what
\* Shell_NotifyIcon answers: whether the command succeeds (ok); for NIM_ADD
\* the UID it leaves in the command (uid) and whether the NIM_SETVERSION
\* succeeds (verOk).
execute(i, cmd, out) ==
    IF ~out.ok THEN Executed(TRUE, i, <<[cmd |-> cmd, ok |-> FALSE]>>)
    ELSE IF cmd.op # NIM_ADD
    THEN Executed(FALSE, i, <<[cmd |-> cmd, ok |-> TRUE]>>)
    ELSE LET added == [cmd EXCEPT !.uid = out.uid]
             verCmd == [added EXCEPT !.op = NIM_SETVERSION,
                                     !.version = NOTIFYICON_VERSION_4]
         IN  Executed(~out.verOk, [i EXCEPT !.id = out.uid],
                      <<[cmd |-> added, ok |-> TRUE],
                        [cmd |-> verCmd, ok |-> out.verOk]>>)

\* newShellNotificationIcon: without a taskbar an icon without id; otherwise
\* the icon is added hidden, and an error of the add leaves no icon object.
newShellNotificationIcon(hWnd, taskbarPresent, out) ==
    LET shellIcon == [id |-> NilId, hWnd |-> hWnd]
    IN  IF ~taskbarPresent THEN Executed(FALSE, shellIcon, <<>>)
        ELSE execute(shellIcon,
                     setVisible(setCallbackMessage(newCmd(shellIcon, NIM_ADD)), FALSE),
                     out)

\* shellNotificationIcon.Dispose: the icon is deleted from the shell if it has
\* an id; unless that fails, id and hWnd are cleared.
shellIconDispose(i, out) ==
    LET cmd == newCmd(i, NIM_DELETE)
        x == IF cmd # NoCmd THEN execute(i, cmd, out) ELSE Executed(FALSE, i, <<>>)
    IN  IF x.err THEN x
        ELSE Executed(FALSE, [id |-> NilId, hWnd |-> 0], x.issued)

\* The program's icons and registries, and what a call on them returns: the
\* error and the commands it issued.
IconResult(h, icons, ids, err, issued) ==
    [heap |-> h, notifyIcons |-> icons, notifyIconIDs |-> ids, err |-> err,
     issued |-> issued]

\* NewNotifyIcon: the shell icon is made (and added hidden if there is a
\* taskbar), then the menu; an error of either returns no icon. The new icon
\* is not visible, has no image and no tool tip; it is entered in notifyIcons
\* and, if it has an id, in notifyIconIDs. (1 is the handle of the form's
\* window, fb.hWnd.)
NewNotifyIcon(h, icons, ids, taskbarPresent, out, menuErr) ==
    LET s == newShellNotificationIcon(1, taskbarPresent, out)
        ni == Len(h) + 1
    IN  IF s.err \/ menuErr THEN IconResult(h, icons, ids, TRUE, s.issued)
        ELSE IconResult(Append(h, [shellIcon |-> s.shellIcon, icon |-> NilImage,
                                   toolTip |-> "", visible |-> FALSE]),
                        icons \cup {ni},
                        IF s.shellIcon.id # NilId
                        THEN [ids EXCEPT ![uint16(s.shellIcon.id)] = ni]
                        ELSE ids,
                        FALSE, s.issued)

\* NotifyIcon.isDefunct
isDefunct(ni) == ni.shellIcon.hWnd = 0

\* A defective reAddToTaskbar that always adds the icon visible.
reAddToTaskbarShown(h, icons, ids, n, out, cacheErr) ==
    LET ni == h[n]
        prevID == ni.shellIcon.id
        cmd == setIcon(setVisible(setCallbackMessage(newCmd(ni.shellIcon, NIM_ADD)),
                                  TRUE),
                       getHICON(ni.icon, cacheErr))
        tt == setToolTip(cmd, ni.toolTip)
        x == execute(ni.shellIcon, tt.cmd, out)
        newID == x.shellIcon.id
        removed == IF prevID # NilId /\ (newID = NilId \/ prevID # newID)
                   THEN [ids EXCEPT ![uint16(prevID)] = NoIcon]
                   ELSE ids
    IN  IF tt.err THEN IconResult(h, icons, ids, TRUE, <<>>)
        ELSE IF x.err
        THEN IconResult([h EXCEPT ![n].shellIcon = x.shellIcon], icons, ids, TRUE,
                        x.issued)
        ELSE IconResult([h EXCEPT ![n].shellIcon = x.shellIcon], icons,
                        IF newID # NilId THEN [removed EXCEPT ![uint16(newID)] = n]
                        ELSE removed,
                        FALSE, x.issued)

\* NotifyIcon.reAddToTaskbar: the icon is added again with its visibility,
\* image and tool tip. If the tool tip cannot be copied or the execute fails,
\* it returns at once; otherwise the entry of a previous id that differs from
\* the new one is deleted from notifyIconIDs and the new id is entered. (It
\* returns nothing: err records that it returned early.)
reAddToTaskbar(h, icons, ids, n, out, cacheErr) ==
    LET ni == h[n]
        prevID == ni.shellIcon.id
        cmd == setIcon(setVisible(setCallbackMessage(newCmd(ni.shellIcon, NIM_ADD)),
                                  ni.visible),
                       getHICON(ni.icon, cacheErr))
        tt == setToolTip(cmd, ni.toolTip)
        x == execute(ni.shellIcon, tt.cmd, out)
        newID == x.shellIcon.id
        removed == IF prevID # NilId /\ (newID = NilId \/ prevID # newID)
                   THEN [ids EXCEPT ![uint16(prevID)] = NoIcon]
                   ELSE ids
    IN  IF tt.err THEN IconResult(h, icons, ids, TRUE, <<>>)
        ELSE IF x.err
        THEN IconResult([h EXCEPT ![n].shellIcon = x.shellIcon], icons, ids, TRUE,
                        x.issued)
        ELSE IconResult([h EXCEPT ![n].shellIcon = x.shellIcon], icons,
                        IF newID # NilId THEN [removed EXCEPT ![uint16(newID)] = n]
                        ELSE removed,
                        FALSE, x.issued)

\* NotifyIcon.Dispose: nothing for a defunct icon; otherwise the shell icon
\* is disposed of and, unless that fails, the icon leaves notifyIcons and the
\* entry of the id it had leaves notifyIconIDs.
Dispose(h, icons, ids, n, out) ==
    LET ni == h[n]
        nid == ni.shellIcon.id
        x == shellIconDispose(ni.shellIcon, out)
    IN  IF isDefunct(ni) THEN IconResult(h, icons, ids, FALSE, <<>>)
        ELSE IF x.err THEN IconResult(h, icons, ids, TRUE, x.issued)
        ELSE IconResult([h EXCEPT ![n].shellIcon = x.shellIcon], icons \ {n},
                        IF nid # NilId THEN [ids EXCEPT ![uint16(nid)] = NoIcon]
                        ELSE ids,
                        FALSE, x.issued)

\* NotifyIcon.SetIcon
SetIcon(h, icons, ids, n, icon, out, cacheErr) ==
    LET ni == h[n]
        cmd == newCmd(ni.shellIcon, NIM_MODIFY)
        x == IF cmd # NoCmd
             THEN execute(ni.shellIcon, setIcon(cmd, getHICON(icon, cacheErr)), out)
             ELSE Executed(FALSE, ni.shellIcon, <<>>)
    IN  IF icon = ni.icon THEN IconResult(h, icons, ids, FALSE, <<>>)
        ELSE IF x.err THEN IconResult(h, icons, ids, TRUE, x.issued)
        ELSE IconResult([h EXCEPT ![n].icon = icon], icons, ids, FALSE, x.issued)

\* NotifyIcon.SetToolTip
SetToolTip(h, icons, ids, n, toolTip, out) ==
    LET ni == h[n]
        cmd == newCmd(ni.shellIcon, NIM_MODIFY)
        tt == IF cmd # NoCmd THEN setToolTip(cmd, toolTip)
              ELSE [err |-> FALSE, cmd |-> NoCmd]
        x == IF cmd # NoCmd /\ ~tt.err THEN execute(ni.shellIcon, tt.cmd, out)
             ELSE Executed(tt.err, ni.shellIcon, <<>>)
    IN  IF toolTip = ni.toolTip THEN IconResult(h, icons, ids, FALSE, <<>>)
        ELSE IF x.err THEN IconResult(h, icons, ids, TRUE, x.issued)
        ELSE IconResult([h EXCEPT ![n].toolTip = toolTip], icons, ids, FALSE,
                        x.issued)

\* A defective SetVisible that stores the value before it tells the shell.
SetVisibleStoresFirst(h, icons, ids, n, visible, out) ==
    LET ni == h[n]
        cmd == newCmd(ni.shellIcon, NIM_MODIFY)
        x == IF cmd # NoCmd THEN execute(ni.shellIcon, setVisible(cmd, visible), out)
             ELSE Executed(FALSE, ni.shellIcon, <<>>)
    IN  IF visible = ni.visible THEN IconResult(h, icons, ids, FALSE, <<>>)
        ELSE IconResult([h EXCEPT ![n].visible = visible], icons, ids, x.err,
                        x.issued)

\* NotifyIcon.SetVisible
SetVisible(h, icons, ids, n, visible, out) ==
    LET ni == h[n]
        cmd == newCmd(ni.shellIcon, NIM_MODIFY)
        x == IF cmd # NoCmd THEN execute(ni.shellIcon, setVisible(cmd, visible), out)
             ELSE Executed(FALSE, ni.shellIcon, <<>>)
    IN  IF visible = ni.visible THEN IconResult(h, icons, ids, FALSE, <<>>)
        ELSE IF x.err THEN IconResult(h, icons, ids, TRUE, x.issued)
        ELSE IconResult([h EXCEPT ![n].visible = visible], icons, ids, FALSE,
                        x.issued)

\* What the shell holds of an icon after the commands of a call from the
\* k-th on, in order: a successful NIM_ADD registers it, a successful
\* NIM_DELETE removes it, and a successful command with the state flag sets
\* its hidden state.
RECURSIVE ToldAll(_, _, _)
ToldAll(sh, issued, k) ==
    IF k > Len(issued) THEN sh
    ELSE LET is == issued[k]
             told ==
                 IF ~is.ok THEN sh
                 ELSE IF is.cmd.op = NIM_ADD
                 THEN [added |-> TRUE,
                       hidden |-> IF "NIF_STATE" \in is.cmd.flags
                                  THEN is.cmd.hidden ELSE FALSE]
                 ELSE IF is.cmd.op = NIM_MODIFY /\ "NIF_STATE" \in is.cmd.flags
                 THEN [sh EXCEPT !.hidden = is.cmd.hidden]
                 ELSE IF is.cmd.op = NIM_DELETE THEN [sh EXCEPT !.added = FALSE]
                 ELSE sh
         IN  ToldAll(told, issued, k + 1)

\* The answers of Shell_NotifyIcon to the execute of a call on icon n. It
\* answers only when a command is executed (asked). NIM_ADD fails, or
\* succeeds and leaves an id no other icon holds, and the NIM_SETVERSION that
\* follows succeeds or fails; another command succeeds or fails.
ShellOutcomes(asked, op, n) ==
    IF ~asked THEN {[ok |-> TRUE, uid |-> 0, verOk |-> FALSE]}
    ELSE IF op = NIM_ADD
    THEN {[ok |-> TRUE, uid |-> u, verOk |-> v] :
              u \in ShellIds \ {heap[m].shellIcon.id : m \in (1..Len(heap)) \ {n}},
              v \in BOOLEAN}
             \cup {[ok |-> FALSE, uid |-> 0, verOk |-> FALSE]}
    ELSE {[ok |-> ok, uid |-> 0, verOk |-> FALSE] : ok \in BOOLEAN}

\* The registries and the shell after the call op(arg) on icon n, and the
\* record kept of the call: its argument, the icon as it was before, the
\* error and the commands issued. An icon never added is held by the shell
\* as not added.
IconStep(op, n, arg, pre, r) ==
    /\ heap' = r.heap
    /\ notifyIcons' = r.notifyIcons
    /\ notifyIconIDs' = r.notifyIconIDs
    /\ shell' = IF n \in 1..Len(r.heap)
                THEN [k \in 1..Len(r.heap) |->
                          IF k = n
                          THEN ToldAll(IF k \in 1..Len(shell) THEN shell[k]
                                       ELSE [added |-> FALSE, hidden |-> FALSE],
                                       r.issued, 1)
                          ELSE shell[k]]
                ELSE shell
    /\ iconOp' = [op |-> op, ni |-> IF op = "NewNotifyIcon" THEN Len(r.heap) ELSE n,
                  arg |-> arg, pre |-> pre, err |-> r.err, issued |-> r.issued]

NewNotifyIconOp ==
    /\ Len(heap) < MaxIcons
    /\ \E taskbarPresent, menuErr \in BOOLEAN :
         \E out \in ShellOutcomes(taskbarPresent, NIM_ADD, Len(heap) + 1) :
           IconStep("NewNotifyIcon", Len(heap) + 1, taskbarPresent, NoIcon,
                    NewNotifyIcon(heap, notifyIcons, notifyIconIDs, taskbarPresent,
                                  out, menuErr))
    /\ UNCHANGED <<eventVars, mnemonicVars, metricsVars, menuVars>>

\* The taskbar was created anew: the window procedure of the form calls
\* reAddToTaskbar for the icons in notifyIcons. The icon cache is asked only
\* for an image.
ReAddToTaskbarOp ==
    /\ \E n \in notifyIcons :
         \E out \in ShellOutcomes(~copyStringToSliceFails(heap[n].toolTip),
                                  NIM_ADD, n),
            cacheErr \in IF heap[n].icon = NilImage THEN {FALSE} ELSE BOOLEAN :
           IconStep("reAddToTaskbar", n, 0, heap[n],
                    reAddToTaskbar(heap, notifyIcons, notifyIconIDs, n, out,
                                   cacheErr))
    /\ UNCHANGED <<eventVars, mnemonicVars, metricsVars, menuVars>>

DisposeOp ==
    /\ \E n \in 1..Len(heap) :
         \E out \in ShellOutcomes(heap[n].shellIcon.id # NilId, NIM_DELETE, n) :
           IconStep("Dispose", n, 0, heap[n],
                    Dispose(heap, notifyIcons, notifyIconIDs, n, out))
    /\ UNCHANGED <<eventVars, mnemonicVars, metricsVars, menuVars>>

SetIconOp ==
    /\ \E n \in 1..Len(heap), icon \in Images :
         \E out \in ShellOutcomes(heap[n].shellIcon.id # NilId
                                      /\ icon # heap[n].icon,
                                  NIM_MODIFY, n),
            cacheErr \in IF icon = NilImage THEN {FALSE} ELSE BOOLEAN :
           IconStep("SetIcon", n, icon, heap[n],
                    SetIcon(heap, notifyIcons, notifyIconIDs, n, icon, out,
                            cacheErr))
    /\ UNCHANGED <<eventVars, mnemonicVars, metricsVars, menuVars>>

SetToolTipOp ==
    /\ \E n \in 1..Len(heap), toolTip \in ToolTips :
         \E out \in ShellOutcomes(heap[n].shellIcon.id # NilId
                                      /\ toolTip # heap[n].toolTip
                                      /\ ~copyStringToSliceFails(toolTip),
                                  NIM_MODIFY, n) :
           IconStep("SetToolTip", n, toolTip, heap[n],
                    SetToolTip(heap, notifyIcons, notifyIconIDs, n, toolTip, out))
    /\ UNCHANGED <<eventVars, mnemonicVars, metricsVars, menuVars>>

SetVisibleOp ==
    /\ \E n \in 1..Len(heap), visible \in BOOLEAN :
         \E out \in ShellOutcomes(heap[n].shellIcon.id # NilId
                                      /\ visible # heap[n].visible,
                                  NIM_MODIFY, n) :
           IconStep("SetVisible", n, visible, heap[n],
                    SetVisible(heap, notifyIcons, notifyIconIDs, n, visible, out))
    /\ UNCHANGED <<eventVars, mnemonicVars, metricsVars, menuVars>>

InitIcon ==
    /\ EventInit /\ MnemonicIdle /\ MetricsIdle /\ MenuIdle
    /\ heap = <<>>
    /\ notifyIcons = {}
    /\ notifyIconIDs = [k \in IDKeys |-> NoIcon]
    /\ shell = <<>>
    /\ iconOp = [op |-> "none", ni |-> NoIcon, arg |-> 0, pre |-> NoIcon,
                 err |-> FALSE, issued |-> <<>>]

IconNext ==
    NewNotifyIconOp \/ ReAddToTaskbarOp \/ DisposeOp \/ SetIconOp \/ SetToolTipOp
        \/ SetVisibleOp

SpecIcon == InitIcon /\ [][IconNext]_vars

(***************************************************************************)
(* Properties of ProceedEvent, checked under Spec.                         *)
(***************************************************************************)
\* The last operation dispatched the event (Publish itself, or the window
\* procedure calling it).
IsPublish ==
    lastOp.op = "Publish" \/ (lastOp.op = "WndProc" /\ lastOp.wnd.published)

\* The indexes of the non-empty slots of hs.
NonEmptySlots(hs) == {i \in 0..(Len(hs) - 1) : hs[i + 1].handler # NilHandler}

\* The slots a dispatch invoked.
InvokedSlots(inv) == {inv[k].slot : k \in 1..Len(inv)}

\* C1: Publish invokes the non-empty handlers in ascending slot order, none
\* skipped; the first handler that returns false is the last one invoked and
\* Publish returns false; Publish returns true exactly when every handler it
\* invoked returned true (also with no handlers), and then every non-empty
\* slot was invoked.
C1_PublishShortCircuits ==
    IsPublish =>
        LET inv == lastOp.invoked
            pre == lastOp.pre
        IN  /\ \A k \in 1..Len(inv) :
                  /\ inv[k].slot \in NonEmptySlots(pre)
                  /\ inv[k].handler = pre[inv[k].slot + 1].handler
                  /\ \A i \in NonEmptySlots(pre) :
                        i < inv[k].slot => \E j \in 1..(k - 1) : inv[j].slot = i
            /\ \A k \in 1..(Len(inv) - 1) :
                  inv[k].slot < inv[k + 1].slot /\ inv[k].proceed
            /\ lastOp.proceed = (\A k \in 1..Len(inv) : inv[k].proceed)
            /\ lastOp.proceed => InvokedSlots(inv) = NonEmptySlots(pre)

\* Three handlers that return true, false, true: only the first two are
\* invoked and Publish returns false.
C1_Witness ==
    /\ lastOp.op = "Publish"
    /\ Cardinality(NonEmptySlots(lastOp.pre)) = 3
    /\ Len(lastOp.invoked) = 2
    /\ lastOp.invoked[1].proceed
    /\ ~lastOp.invoked[2].proceed
    /\ ~lastOp.proceed

\* The one-shot handlers attached when the last operation began.
OneShotSlots(hs) == {i \in NonEmptySlots(hs) : hs[i + 1].once}

\* The handlers attached in hs.
AttachedIds(hs) == {hs[i + 1].handler : i \in NonEmptySlots(hs)}

\* C2 as stated: after one Publish, every handler attached with Once is absent
\* from the handler set, whatever the other handlers are.
C2_OnceGoneAfterAnyPublish ==
    IsPublish =>
        \A i \in OneShotSlots(lastOp.pre) :
            /\ handlers[i + 1].handler = NilHandler
            /\ lastOp.pre[i + 1].handler \notin AttachedIds(handlers)

\* C2 amended: a handler attached with Once is absent from the handler set
\* after the Publish that invokes it, whatever it returned; a Publish that a
\* handler in a lower slot aborted before reaching it leaves it attached, in
\* its slot and still one-shot.
C2_OnceGoneAfterInvocation ==
    IsPublish =>
        \A i \in OneShotSlots(lastOp.pre) :
            IF i \in InvokedSlots(lastOp.invoked)
            THEN /\ handlers[i + 1].handler = NilHandler
                 /\ lastOp.pre[i + 1].handler \notin AttachedIds(handlers)
            ELSE /\ handlers[i + 1] = lastOp.pre[i + 1]
                 /\ ~lastOp.proceed
                 /\ \E k \in 1..Len(lastOp.invoked) :
                       lastOp.invoked[k].slot < i /\ ~lastOp.invoked[k].proceed

\* A one-shot handler behind another handler is invoked, returns false, and
\* is gone.
C2_Witness ==
    /\ lastOp.op = "Publish"
    /\ Len(lastOp.invoked) = 2
    /\ lastOp.invoked[2].once
    /\ ~lastOp.invoked[2].proceed
    /\ handlers[lastOp.invoked[2].slot + 1].handler = NilHandler

\* C3 as stated: after Detach(h), the next Attach returns h.
C3_AttachReturnsDetachedHandle ==
    (lastOp.op = "Attach" /\ lastOp.preDetached # -1) =>
        lastOp.ret = lastOp.preDetached

\* C3 amended: after Detach(h), the next Attach returns the lowest empty slot:
\* a handle that is at most h, and h exactly when no slot below h is empty;
\* and no Publish invokes a handler that was detached before it.
C3_AttachReusesLowestEmptySlot ==
    /\ (lastOp.op = "Attach" /\ lastOp.preDetached # -1) =>
           /\ lastOp.ret <= lastOp.preDetached
           /\ lastOp.pre[lastOp.ret + 1].handler = NilHandler
           /\ \A j \in 0..(lastOp.ret - 1) : lastOp.pre[j + 1].handler # NilHandler
           /\ (lastOp.ret = lastOp.preDetached) <=>
                  (\A j \in 0..(lastOp.preDetached - 1) :
                       lastOp.pre[j + 1].handler # NilHandler)
    /\ IsPublish =>
           \A k \in 1..Len(lastOp.invoked) :
               lastOp.invoked[k].handler \notin lastOp.preDetachedIds

\* Handle 1 was detached while slot 0 was empty too, and Attach returned 0.
C3_Witness ==
    /\ lastOp.op = "Attach"
    /\ lastOp.preDetached = 1
    /\ lastOp.ret = 0
    /\ Len(handlers) >= 2

\* C4 as stated: in every Publish the handlers are invoked in the order in
\* which they were attached (handler ids are handed out in attach order).
C4_DispatchInAttachOrder ==
    IsPublish =>
        \A p, q \in 1..Len(lastOp.invoked) :
            p < q => lastOp.invoked[p].handler < lastOp.invoked[q].handler

\* C4 amended: in every Publish the handlers are invoked in ascending slot
\* order, empty slots skipped; a handler attached earlier is invoked before a
\* handler attached later unless the later one was placed in a reused slot.
C4_DispatchInSlotOrder ==
    IsPublish =>
        \A p, q \in 1..Len(lastOp.invoked) :
            p < q =>
                /\ lastOp.invoked[p].slot < lastOp.invoked[q].slot
                /\ lastOp.invoked[p].handler > lastOp.invoked[q].handler =>
                       lastOp.invoked[p].handler \in reusedIds

\* A handler that reused slot 0 is invoked before one attached earlier.
C4_Witness ==
    /\ lastOp.op = "Publish"
    /\ Len(lastOp.invoked) = 2
    /\ lastOp.invoked[1].handler > lastOp.invoked[2].handler
    /\ lastOp.invoked[1].slot = 0

\* C5: Detach(h) empties slot h and changes no other slot; Attach (also inside
\* Once) changes only the slot whose index it returns; no operation lowers
\* the number of slots; an attached handler is in the slot its Attach returned.
C5_HandlesStable ==
    /\ (lastOp.op = "Detach" /\ ~lastOp.panicked) =>
           /\ Len(handlers) = Len(lastOp.pre)
           /\ handlers[lastOp.handle + 1].handler = NilHandler
           /\ \A i \in 0..(Len(lastOp.pre) - 1) :
                  i # lastOp.handle => handlers[i + 1] = lastOp.pre[i + 1]
    /\ lastOp.op \in {"Attach", "Once"} =>
           \A i \in 0..(Len(lastOp.pre) - 1) :
               i # lastOp.ret => handlers[i + 1] = lastOp.pre[i + 1]
    /\ Len(handlers) >= Len(lastOp.pre)
    /\ \A i \in NonEmptySlots(handlers) : handleOf[handlers[i + 1].handler] = i

\* Slot 0 of three was detached and the two handlers behind it kept their
\* handles.
C5_Witness ==
    /\ lastOp.op = "Detach"
    /\ ~lastOp.panicked
    /\ lastOp.handle = 0
    /\ NonEmptySlots(lastOp.pre) = {0, 1, 2}
    /\ NonEmptySlots(handlers) = {1, 2}

(***************************************************************************)
(* Properties of notifyIconWndProc, checked under Spec.                    *)
(***************************************************************************)
\* The window procedure showed the context menu.
MenuShown ==
    lastOp.wnd.foreground \/ lastOp.wnd.tracked \/ lastOp.wnd.triggered # 0

\* C6: on WM_CONTEXTMENU for a registered icon the menu is shown only if
\* Publish returned true and the menu has a visible action; if a handler
\* returned false, the menu is not shown and no action is triggered.
C6_ContextMenuGated ==
    (lastOp.op = "WndProc" /\ lastOp.wnd.registered
        /\ lastOp.wnd.msg = WM_CONTEXTMENU) =>
        /\ lastOp.wnd.published
        /\ MenuShown => (lastOp.wnd.proceed /\ lastOp.wnd.hasVisible)
        /\ (\E k \in 1..Len(lastOp.wnd.invoked) : ~lastOp.wnd.invoked[k].proceed) =>
               (~MenuShown /\ lastOp.wnd.ret = "DefWindowProc")

\* A handler vetoed a menu that has visible actions: the menu is not shown.
C6_Witness ==
    /\ lastOp.op = "WndProc"
    /\ lastOp.wnd.msg = WM_CONTEXTMENU
    /\ lastOp.wnd.hasVisible
    /\ Len(lastOp.wnd.invoked) = 2
    /\ ~lastOp.wnd.invoked[2].proceed
    /\ ~MenuShown

(***************************************************************************)
(* Properties of stripMnemonic, checked under SpecMnemonic.                *)
(***************************************************************************)
\* Position i (from 1) of t holds an unescaped marker: a '&' with an even
\* number of '&' directly before it.
IsMarker(t, i) ==
    /\ t[i] = Amp
    /\ LET start == CHOOSE s \in 1..i :
                        /\ \A j \in s..i : t[j] = Amp
                        /\ s = 1 \/ t[s - 1] # Amp
       IN  (i - start) % 2 = 0

\* The positions of the markers that have a character after them: each forms
\* a pair with that character.
PairPositions(t) == {i \in 1..(Len(t) - 1) : IsMarker(t, i)}

\* The pairs whose second character is not '&' and has a virtual key.
Candidates(kbd, t) ==
    {i \in PairPositions(t) : t[i + 1] # Amp /\ VkKeyScan(kbd, t[i + 1]) # -1}

\* The least element of a non-empty set of numbers.
Least(S) == CHOOSE x \in S : \A y \in S : x <= y

\* C7: the key is the virtual-key code of the character after the first
\* unescaped marker whose next character is not '&' and converts to a virtual
\* key, and 0 when there is no such marker.
C7_FirstMnemonicWins ==
    mnOut.done =>
        LET cands == Candidates(mnLayout, mnIn)
        IN  IF cands = {} THEN mnOut.key = 0
            ELSE /\ mnOut.key = VkKeyScan(mnLayout, mnIn[Least(cands) + 1]) % 256
                 /\ mnOut.key # 0

\* "&Law && &Order && Bacon": two candidates, and the key is that of 'L'.
C7_Witness ==
    /\ mnOut.done
    /\ Len(mnIn) = 24
    /\ Cardinality(Candidates(mnLayout, mnIn)) = 2
    /\ mnOut.key = 76

\* The k-th position of 1..n that is not in P.
KthKept(n, P, k) ==
    CHOOSE i \in (1..n) \ P : Cardinality({j \in (1..i) \ P : TRUE}) = k

\* C8: the text returned is the input without the first character of every
\* pair: the second character of each pair stays, the other characters keep
\* their order, the length drops by the number of pairs, and the recorded
\* indexes are deleted from the highest to the lowest.
C8_PairsCollapsed ==
    mnOut.done =>
        LET P == PairPositions(mnIn)
            n == Len(mnIn)
        IN  /\ \A i \in P : (i + 1) \notin P
            /\ Len(mnOut.text) = n - Cardinality(P)
            /\ \A k \in 1..Len(mnOut.text) : mnOut.text[k] = mnIn[KthKept(n, P, k)]
            /\ {mnOut.order[k] + 1 : k \in 1..Len(mnOut.order)} = P
            /\ Len(mnOut.order) = Cardinality(P)
            /\ \A k \in 1..(Len(mnOut.order) - 1) : mnOut.order[k] > mnOut.order[k + 1]

\* "Law && &Order": an escaped marker and a mnemonic, stripped to
\* "Law & Order".
C8_Witness ==
    /\ mnOut.done
    /\ mnIn = <<76, 97, 119, 32, 38, 38, 32, 38, 79, 114, 100, 101, 114, 0>>
    /\ mnOut.text = <<76, 97, 119, 32, 38, 32, 79, 114, 100, 101, 114, 0>>
    /\ mnOut.order = <<7, 4>>
    /\ mnOut.key = 79

\* C9: a text without any '&' (the empty text too) comes back unchanged, with
\* no key.
C9_NoMarkerUnchanged ==
    (mnOut.done /\ \A i \in 1..Len(mnIn) : mnIn[i] # Amp) =>
        (mnOut.text = mnIn /\ mnOut.key = 0)

\* "Law 'N' Order": no marker, though its characters have keys.
C9_Witness ==
    /\ mnOut.done
    /\ mnIn = <<76, 97, 119, 32, 39, 78, 39, 32, 79, 114, 100, 101, 114, 0>>
    /\ mnOut.text = mnIn
    /\ mnOut.key = 0

(***************************************************************************)
(* Properties of menuSharedMetrics, checked under SpecMetrics.             *)
(***************************************************************************)
MarginFields ==
    {"checkMargins", "checkBgMargins", "itemMargins", "contentMargins",
     "chevronMargins"}
SizeFields ==
    {"checkSize", "combinedCheckSize", "combinedCheckBgSize", "chevronSize",
     "combinedChevronSize", "separatorSize", "combinedSeparatorSize"}
MarginSides == {"LeftWidth", "RightWidth", "TopHeight", "BottomHeight"}
SizeSides == {"CX", "CY"}

\* r is num/den rounded to the nearest integer (halves away from zero), for
\* num >= 0 and den > 0.
IsRounded(r, num, den) == 2 * num - den < 2 * den * r /\ 2 * den * r <= 2 * num + den

\* The last call was a CopyForDPI that returned.
Copied == smOp.op = "CopyForDPI" /\ ~smOp.panicked

\* C10: CopyForDPI(d) on metrics at 96 dpi returns metrics with dpi = d whose
\* every size and margin field is the receiver's field times d/96, rounded;
\* for d = 96 every size and margin field equals the receiver's.
C10_CopyForDPIScales ==
    Copied =>
        /\ smOp.receiver.dpi = BaseDPI
        /\ smCopy.dpi = smOp.dpi
        /\ \A f \in MarginFields, side \in MarginSides :
               IsRounded(smCopy[f][side], smOp.receiver[f][side] * smOp.dpi, BaseDPI)
        /\ \A f \in SizeFields, side \in SizeSides :
               IsRounded(smCopy[f][side], smOp.receiver[f][side] * smOp.dpi, BaseDPI)
        /\ smOp.dpi = BaseDPI =>
               \A f \in MarginFields \cup SizeFields : smCopy[f] = smOp.receiver[f]

\* The window's metrics scaled to 144 dpi, where a combined size is rounded
\* up from a half and differs from the sum of its scaled parts.
C10_Witness ==
    /\ Copied
    /\ smOp.receiver = sm96
    /\ smOp.dpi = 144
    /\ \E f \in SizeFields : sm96[f].CX % 2 = 1 /\ 2 * smCopy[f].CX = 3 * sm96[f].CX + 1
    /\ smCopy.combinedCheckSize.CX #
           smCopy.checkSize.CX + smCopy.checkMargins.LeftWidth
               + smCopy.checkMargins.RightWidth

\* C11: CopyForDPI panics and returns no metrics whenever its receiver is not
\* at 96 dpi, so a copy made for another pixel density is never scaled again;
\* no call changes its receiver, the window's baseline stays as it was built,
\* and the fonts of a returned copy are the receiver's fonts.
C11_CopyForDPIRejectsScaled ==
    /\ sm96 # NoMetrics => sm96 = newMenuSharedMetrics(theme)
    /\ smOp.op = "CopyForDPI" =>
           /\ smOp.after = smOp.receiver
           /\ smOp.receiver.dpi # BaseDPI =>
                  smOp.panicked /\ smOp.result = NoMetrics
           /\ ~smOp.panicked =>
                  /\ smOp.result.fontNormal = smOp.receiver.fontNormal
                  /\ smOp.result.fontBold = smOp.receiver.fontBold
                  /\ smOp.result.fontNormal = sm96.fontNormal
                  /\ smOp.result.fontBold = sm96.fontBold

\* CopyForDPI was called on a copy made for 144 dpi, panicked, and the copy
\* is still the one held.
C11_Witness ==
    /\ smOp.op = "CopyForDPI"
    /\ smOp.panicked
    /\ smOp.receiver.dpi = 144
    /\ smCopy = smOp.receiver
    /\ sm96.dpi = BaseDPI

\* The fields of the metrics that hold the answer of one theme query.
QueriedFields ==
    {"separatorSize", "checkSize", "chevronSize", "checkMargins", "checkBgMargins",
     "itemMargins", "chevronMargins"}

\* C12: newMenuSharedMetrics returns nil if any one of its theme queries
\* fails; a result that is not nil has dpi = 96 and every field populated from
\* the answer of a query that succeeded.
C12_MetricsAllOrNothing ==
    smOp.op = "newMenuSharedMetrics" =>
        /\ theme.failed # {} => smOp.result = NoMetrics
        /\ smOp.result # NoMetrics =>
               /\ theme.failed = {}
               /\ smOp.result.dpi = BaseDPI
               /\ \A f \in QueriedFields : smOp.result[f] = theme[f]
               /\ smOp.result.contentMargins.LeftWidth = theme.bgBorderSize
               /\ smOp.result.contentMargins.RightWidth = theme.borderSize
               /\ smOp.result.fontNormal = theme.menuFont
               /\ smOp.result.fontBold # NilFont
               /\ smOp.result.fontBold.weight = "bold"
               /\ smOp.result.fontBold.face = theme.menuFont.face

\* The metrics were asked for under a theme whose bold font cannot be
\* created, the last query made, and nil came back.
C12_Witness ==
    /\ smOp.op = "newMenuSharedMetrics"
    /\ theme.failed = {"boldFont"}
    /\ smOp.result = NoMetrics
    /\ sm96 = NoMetrics

(***************************************************************************)
(* Properties of menuSpecificMetrics, checked under SpecAccel.             *)
(***************************************************************************)
\* The greatest width and the greatest height among the extents in S, zero
\* for no extent.
MaxOver(S, side) ==
    IF S = {} THEN 0 ELSE CHOOSE v \in {e[side] : e \in S} : \A e \in S : e[side] <= v

\* C19: between two resets maxAccelTextExtent never decreases in width or
\* height and is the component-wise maximum of the extents measured so far; a
\* call for an action without a shortcut, or one whose theme, canvas or text
\* extent query fails, leaves it unchanged; reset sets it to zero.
C19_AccelExtentRunningMax ==
    /\ mm.CX = MaxOver(menuOp.measured, "CX")
    /\ mm.CY = MaxOver(menuOp.measured, "CY")
    /\ menuOp.op = "reset" => mm = ZeroSize
    /\ menuOp.op = "measureAccelTextExtent" =>
           /\ mm.CX >= menuOp.pre.CX
           /\ mm.CY >= menuOp.pre.CY
           /\ (~menuOp.hasShortcut \/ menuOp.failed) => mm = menuOp.pre

\* A wide, low extent was measured after a narrow, high one: the maximum is
\* neither of the two extents.
C19_Witness ==
    /\ menuOp.op = "measureAccelTextExtent"
    /\ menuOp.hasShortcut /\ ~menuOp.failed
    /\ menuOp.pre = Size(0, 16)
    /\ menuOp.extent = Size(16, 0)
    /\ mm = Size(16, 16)

(***************************************************************************)
(* Properties of menuItemLayout, checked under SpecLayout.                 *)
(***************************************************************************)
\* The last call was layout.
LaidOut == menuOp.op = "layout"

\* r lies between the top and the bottom of the item rectangle.
VerticallyWithin(r, rect) == r.Top >= rect.Top /\ r.Bottom <= rect.Bottom

\* The rectangles C13 names.
OrderedParts == {"checkboxBgRect", "gutterRect", "contentRect", "chevronRect"}

CombinedHeight(part) ==
    CASE part = "checkboxBgRect" -> smCopy.combinedCheckBgSize.CY
      [] part = "contentRect" -> ml.combinedContentSize.CY
      [] part = "chevronRect" -> smCopy.combinedChevronSize.CY
      [] part = "gutterRect" -> 0

\* The least width of an item whose content starts left of its chevron.
RoomyWidth ==
    smCopy.combinedCheckBgSize.CX + 2 * smCopy.contentMargins.LeftWidth
        + smCopy.combinedChevronSize.CX - smCopy.chevronMargins.LeftWidth

MeasuredContent == menuOp.op = "measure" /\ ~item.separator /\ ~menuOp.failed

\* The content width and height measure works with: the handler's, widened by
\* twice the accelerator width and raised to the accelerator height when the
\* menu's accelerator width is positive.
AccelWidened(w) == IF mm.CX > 0 THEN w + 2 * mm.CX ELSE w
AccelRaised(h) == IF mm.CX > 0 /\ mm.CY > h THEN mm.CY ELSE h

\* The sum of the left and right, and of the top and bottom, margins.
Horizontal(m) == m.LeftWidth + m.RightWidth
Vertical(m) == m.TopHeight + m.BottomHeight

\* C17: for an item that is not a separator, with theme and canvas available,
\* measure returns the width combinedCheckBgSize.CX + C + horizontal content
\* margins + combinedChevronSize.CX + horizontal item margins and the height
\* max(combinedCheckBgSize.CY, H + vertical content margins + vertical item
\* margins, combinedChevronSize.CY), C and H being the handler's content size,
\* C widened by twice the menu's accelerator width and H raised to its
\* accelerator height when that width is positive.
C17_MeasureSize ==
    MeasuredContent =>
        LET C == AccelWidened(menuOp.contentW)
            H == AccelRaised(menuOp.contentH)
            contentHigh == H + Vertical(smCopy.contentMargins)
                             + Vertical(smCopy.itemMargins)
            heights == {smCopy.combinedCheckBgSize.CY, contentHigh,
                        smCopy.combinedChevronSize.CY}
        IN  /\ menuOp.onMeasure
            /\ menuOp.cx = smCopy.combinedCheckBgSize.CX + C
                               + Horizontal(smCopy.contentMargins)
                               + smCopy.combinedChevronSize.CX
                               + Horizontal(smCopy.itemMargins)
            /\ menuOp.cy \in heights
            /\ \A v \in heights : v <= menuOp.cy

\* An item with no content height was measured in a menu with accelerators:
\* the accelerator height decides the height of the item.
C17_Witness ==
    /\ MeasuredContent
    /\ mm.CX > 0
    /\ menuOp.contentH < mm.CY
    /\ menuOp.cy = mm.CY + Vertical(smCopy.contentMargins)
                       + Vertical(smCopy.itemMargins)
    /\ menuOp.cy > smCopy.combinedCheckBgSize.CY
    /\ menuOp.cy > smCopy.combinedChevronSize.CY

\* C18: for a separator, measure returns the combined separator size of the
\* shared metrics, does not call OnMeasure, and leaves contentSize and
\* combinedContentSize as they were.
C18_SeparatorMeasure ==
    (menuOp.op = "measure" /\ item.separator) =>
        /\ menuOp.cx = smCopy.combinedSeparatorSize.CX
        /\ menuOp.cy = smCopy.combinedSeparatorSize.CY
        /\ ~menuOp.onMeasure
        /\ ml.contentSize = menuOp.preContentSize
        /\ ml.combinedContentSize = menuOp.preCombinedContentSize

\* A separator was measured in a menu at 144 dpi.
C18_Witness ==
    /\ menuOp.op = "measure"
    /\ item.separator
    /\ smCopy.dpi = 144
    /\ menuOp.cx > 0
    /\ menuOp.cy > 0
    /\ ml.combinedContentSize = ZeroSize

(***************************************************************************)
(* Properties of itemStateToThemeStates, checked under SpecThemeStates.    *)
(***************************************************************************)
\* The item state of the last call has the bit, a power of two.
HasBit(bit) == (menuOp.state \div bit) % 2 = 1

\* The last call was itemStateToThemeStates.
Resolved == menuOp.op = "itemStateToThemeStates"

StateHot == HasBit(ODS_HOTLIGHT) \/ HasBit(ODS_SELECTED)
StateDisabled == HasBit(ODS_DISABLED) \/ HasBit(ODS_GRAYED)

\* The item state of the last call with the HOTLIGHT and SELECTED bits
\* cleared.
StateNotHot ==
    menuOp.state - (IF HasBit(ODS_HOTLIGHT) THEN ODS_HOTLIGHT ELSE 0)
                 - (IF HasBit(ODS_SELECTED) THEN ODS_SELECTED ELSE 0)

\* C14: for every item state, item = normal + 1 if HOTLIGHT or SELECTED is
\* set + 2 if DISABLED or GRAYED is set, chevron = the disabled identifier if
\* DISABLED or GRAYED is set, else normal; chevron, checkBg and checkFg are
\* what they are for the same state without the hot bits.
C14_ItemAndChevronStates ==
    Resolved =>
        /\ menuOp.result.item = MPI_NORMAL + (IF StateHot THEN 1 ELSE 0)
                                    + (IF StateDisabled THEN 2 ELSE 0)
        /\ menuOp.result.chevron = IF StateDisabled THEN MSM_DISABLED ELSE MSM_NORMAL
        /\ LET cold == itemStateToThemeStates(StateNotHot, item.exclusive)
           IN  /\ menuOp.result.chevron = cold.chevron
               /\ menuOp.result.checkBg = cold.checkBg
               /\ menuOp.result.checkFg = cold.checkFg

\* A hot, grayed item: the item identifier is normal + 3.
C14_Witness ==
    /\ Resolved
    /\ HasBit(ODS_HOTLIGHT) /\ HasBit(ODS_GRAYED) /\ ~HasBit(ODS_DISABLED)
    /\ menuOp.result.item = MPI_NORMAL + 3
    /\ menuOp.result.chevron = MSM_DISABLED

\* C15: checked is set iff the CHECKED bit is; when not checked, checkBg and
\* checkFg stay zero; when checked, checkFg is the checkmark identifier (the
\* bullet identifier for an exclusive action) plus 1 if disabled, and checkBg
\* is the disabled variant if disabled, else the normal one.
C15_CheckStates ==
    Resolved =>
        /\ menuOp.result.checked = HasBit(ODS_CHECKED)
        /\ ~HasBit(ODS_CHECKED) =>
               menuOp.result.checkBg = 0 /\ menuOp.result.checkFg = 0
        /\ HasBit(ODS_CHECKED) =>
               /\ menuOp.result.checkFg =
                      (IF item.exclusive THEN MC_BULLETNORMAL ELSE MC_CHECKMARKNORMAL)
                          + (IF StateDisabled THEN 1 ELSE 0)
               /\ menuOp.result.checkBg =
                      IF StateDisabled THEN MCB_DISABLED ELSE MCB_NORMAL

\* A checked, disabled item of an exclusive action: the bullet, disabled.
C15_Witness ==
    /\ Resolved
    /\ item.exclusive
    /\ HasBit(ODS_CHECKED) /\ HasBit(ODS_DISABLED)
    /\ menuOp.result.checkFg = MC_BULLETNORMAL + 1
    /\ menuOp.result.checkBg = MCB_DISABLED

(***************************************************************************)
(* Properties of onDraw, checked under SpecDraw.                           *)
(***************************************************************************)
\* The places of the calls of a name among the calls of the last onDraw.
CallsOf(name) == {k \in 1..Len(menuOp.calls) : menuOp.calls[k].call = name}

\* The places of the calls that draw into the buffer.
BufferDraws ==
    CallsOf("drawBackground") \cup CallsOf("OnDraw")
        \cup CallsOf("DrawBitmapWithOpacityPixels")

\* C16: in onDraw a buffered paint that was begun is ended exactly once
\* before onDraw returns, on every exit path (canvas failure, separator,
\* completion), after everything drawn into it; when the begin fails or is
\* not reached, no end is issued.
C16_BufferedPaintEndedOnce ==
    menuOp.op = "onDraw" =>
        /\ menuOp.exit \in {"canvas", "separator", "done"} =>
               /\ Cardinality(CallsOf("BeginBufferedPaint")) = 1
               /\ Cardinality(CallsOf("EndBufferedPaint")) = 1
               /\ \A b \in CallsOf("BeginBufferedPaint"), k \in CallsOf("EndBufferedPaint") :
                      b < k
               /\ \A d \in BufferDraws, k \in CallsOf("EndBufferedPaint") : d < k
        /\ menuOp.exit \in {"theme", "begin"} => CallsOf("EndBufferedPaint") = {}

\* The canvas of a begun buffered paint could not be had: onDraw returned
\* early, having drawn nothing, and the paint was ended.
C16_Witness ==
    /\ menuOp.op = "onDraw"
    /\ menuOp.exit = "canvas"
    /\ BufferDraws = {}
    /\ Cardinality(CallsOf("EndBufferedPaint")) = 1
    /\ menuOp.bp.h = 0

(***************************************************************************)
(* One-shot handlers of ProceedEvent, checked under Spec.                  *)
(***************************************************************************)
\* The entries of the last dispatch that invoked a one-shot handler.
OneShotInvocations == {k \in 1..Len(lastOp.invoked) : lastOp.invoked[k].once}

\* C20: a one-shot handler is detached right after its invocation, whether
\* it returned true or false: at the end of the dispatch its slot is empty and
\* it is attached nowhere, and it had not been invoked or detached before, so
\* it is invoked at most once over all dispatches; a one-shot handler the
\* dispatch did not reach stays attached, still one-shot.
C20_OneShotInvokedOnce ==
    IsPublish =>
        /\ \A k \in OneShotInvocations :
               LET inv == lastOp.invoked[k]
               IN  /\ handlers[inv.slot + 1].handler = NilHandler
                   /\ inv.handler \notin AttachedIds(handlers)
                   /\ inv.handler \notin lastOp.preDetachedIds
                   /\ inv.handler \in detachedIds
                   /\ \A j \in 1..Len(lastOp.invoked) :
                          j # k => lastOp.invoked[j].handler # inv.handler
        /\ \A i \in OneShotSlots(lastOp.pre) \ InvokedSlots(lastOp.invoked) :
               handlers[i + 1] = lastOp.pre[i + 1]

\* A dispatch over three handlers: a one-shot handler returned true and is
\* gone, the next handler returned false, and the one-shot handler behind it
\* is still attached.
C20_Witness ==
    /\ lastOp.op = "Publish"
    /\ Len(lastOp.invoked) = 2
    /\ lastOp.invoked[1].once /\ lastOp.invoked[1].proceed
    /\ ~lastOp.invoked[2].proceed
    /\ handlers[lastOp.invoked[1].slot + 1].handler = NilHandler
    /\ \E i \in OneShotSlots(handlers) : i > lastOp.invoked[2].slot
(***************************************************************************)
(* Slot placement of Attach and Once                                       *)
(***************************************************************************)
\* The indices of the empty slots of a handler slice.
EmptySlots(hs) == {i \in 0..(Len(hs) - 1) : hs[i + 1].handler = NilHandler}

\* The least element of a non-empty set of indices.
Lowest(S) == CHOOSE i \in S : \A j \in S : i <= j

\* hs2 is hs with slot i replaced by info, every other slot as it was.
SlotReplaced(hs, hs2, i, info) ==
    /\ Len(hs2) = Len(hs)
    /\ hs2[i + 1] = info
    /\ \A k \in 1..Len(hs) : k # i + 1 => hs2[k] = hs[k]

\* C21: Attach returns the lowest index of an empty slot when there is one and
\* the slice keeps its length; otherwise it returns the previous slot count
\* and the slice is one slot longer. Once places its handler by the same
\* rule, with the one-shot mark set.
C21_AttachLowestEmptyOrAppend ==
    lastOp.op \in {"Attach", "Once"} =>
        LET pre == lastOp.pre
            info == HandlerInfo(lastOp.preNext, lastOp.op = "Once")
        IN  IF EmptySlots(pre) # {}
            THEN /\ lastOp.ret = Lowest(EmptySlots(pre))
                 /\ SlotReplaced(pre, handlers, lastOp.ret, info)
            ELSE /\ lastOp.ret = Len(pre)
                 /\ handlers = Append(pre, info)

\* Once placed its handler into the lower of two empty slots.
C21_Witness ==
    /\ lastOp.op = "Once"
    /\ Cardinality(EmptySlots(lastOp.pre)) = 2
    /\ lastOp.ret = 0
    /\ Len(handlers) = Len(lastOp.pre)

(***************************************************************************)
(* Detach with a handle that names no attached handler                     *)
(***************************************************************************)
\* The handle of the last Detach was outside the slice it was applied to.
DetachOutOfRange == lastOp.handle < 0 \/ lastOp.handle >= Len(lastOp.pre)

\* The handle of the last Detach named a slot that was already empty.
DetachOfEmptySlot ==
    /\ ~DetachOutOfRange
    /\ lastOp.pre[lastOp.handle + 1].handler = NilHandler

\* C22 as claimed: Detach with an invalid handle, out of range or naming an
\* already empty slot, does not return normally.
C22_InvalidDetachFailsLoudly ==
    (lastOp.op = "Detach" /\ (DetachOutOfRange \/ DetachOfEmptySlot)) =>
        lastOp.panicked

\* C22 amended: Detach does not return normally exactly when its handle is out
\* of range (the index panics), and then the slots are as they were; with a
\* handle that names an already empty slot it returns normally and leaves
\* every slot as it was.
C22_DetachPanicsOnlyOutOfRange ==
    lastOp.op = "Detach" =>
        /\ lastOp.panicked <=> DetachOutOfRange
        /\ (DetachOutOfRange \/ DetachOfEmptySlot) => handlers = lastOp.pre

\* A slot emptied by the dispatch of its one-shot handler was detached again:
\* the call returned and the slot kept its one-shot mark.
C22_Witness ==
    /\ lastOp.op = "Detach"
    /\ DetachOfEmptySlot
    /\ ~lastOp.panicked
    /\ handlers[lastOp.handle + 1].once

(***************************************************************************)
(* Persistence of a handler attached with Attach                           *)
(***************************************************************************)
\* The handlers attached with Attach so far.
AttachIds == (1..(nextId - 1)) \ onceIds

\* The slots that hold handler id.
SlotsOf(id) == {k \in 1..Len(handlers) : handlers[k].handler = id}

\* C29: a handler attached with Attach is persistent, also in a slot a
\* one-shot handler occupied before: its slot never carries the one-shot mark,
\* no dispatch detaches it, and it stays attached until it is detached with
\* Detach.
C29_AttachedIsPersistent ==
    /\ \A k \in 1..Len(handlers) :
           handlers[k].handler # NilHandler =>
               (handlers[k].once <=> handlers[k].handler \in onceIds)
    /\ \A k \in 1..Len(lastOp.invoked) :
           LET inv == lastOp.invoked[k]
           IN  inv.handler \in AttachIds =>
                   /\ ~inv.once
                   /\ handlers[inv.slot + 1].handler = inv.handler
    /\ \A id \in AttachIds :
           \/ SlotsOf(id) = {handleOf[id] + 1}
           \/ (SlotsOf(id) = {} /\ id \in detachedIds)
    /\ (lastOp.op # "Detach" /\ ~lastOp.panicked) =>
           (detachedIds \ lastOp.preDetachedIds) \subseteq onceIds

\* A handler attached with Attach into the slot a one-shot handler had
\* occupied was invoked by a dispatch and is still attached.
C29_Witness ==
    /\ lastOp.op = "Publish"
    /\ \E k \in 1..Len(lastOp.invoked) :
           LET inv == lastOp.invoked[k]
           IN  /\ inv.handler \in AttachIds \cap reusedIds
               /\ \E o \in onceIds : o < inv.handler /\ handleOf[o] = inv.slot
               /\ handlers[inv.slot + 1] = HandlerInfo(inv.handler, FALSE)

(***************************************************************************)
(* A marker that ends the sequence                                         *)
(***************************************************************************)
\* The number of '&' that end t[1..n].
RECURSIVE TrailingMarkers(_, _)
TrailingMarkers(t, n) ==
    IF n = 0 \/ t[n] # Amp THEN 0 ELSE 1 + TrailingMarkers(t, n - 1)

\* The last element of t is an unescaped '&': the markers before it pair up.
TrailingLoneMarker(t) == TrailingMarkers(t, Len(t)) % 2 = 1

\* t without its last element.
Front(t) == SubSeq(t, 1, Len(t) - 1)

\* The elements of a sequence.
Range(q) == {q[k] : k \in 1..Len(q)}

\* C23: when the sequence given to stripMnemonic ends in an unescaped '&',
\* the index of that '&' is not recorded for stripping, the returned text is
\* the stripped text of the rest followed by that '&', and the key is the
\* one the rest alone yields (none if the rest has no candidate).
C23_TrailingLoneMarkerKept ==
    (mnOut.done /\ TrailingLoneMarker(mnIn)) =>
        LET rest == stripMnemonic(mnLayout, Front(mnIn))
        IN  /\ (Len(mnIn) - 1) \notin Range(mnOut.stripIdx)
            /\ mnOut.text = Append(rest.text, Amp)
            /\ mnOut.key = rest.key
            /\ (Len(mnIn) = 1 => mnOut.key = 0)

\* "&L&" was stripped: the first marker went and gave the key of 'L', the
\* last one stayed.
C23_Witness ==
    /\ mnOut.done
    /\ mnIn = <<Amp, 76, Amp>>
    /\ mnOut.text = <<76, Amp>>
    /\ mnOut.key = 76
    /\ mnOut.stripIdx = <<0>>

(***************************************************************************)
(* The right end of the content rectangle                                  *)
(***************************************************************************)
\* C24 as claimed: the content rectangle ends at or left of the left edge of
\* the chevron clip rectangle.
C24_ContentLeftOfChevron ==
    LaidOut => ml.contentRect.Right <= ml.chevronClipRect.Left

\* C24 amended: the content rectangle starts at the gutter's right edge plus
\* the left content margin and ends at the item's right edge minus the right
\* content margin; the chevron clip rectangle is the rightmost strip of the
\* item, as wide as the combined chevron size. The two overlap horizontally
\* by the combined chevron width minus the right content margin.
C24_ContentReachesRightMargin ==
    LaidOut =>
        /\ ml.contentRect.Left =
               ml.gutterRect.Right + smCopy.contentMargins.LeftWidth
        /\ ml.contentRect.Right =
               menuOp.rect.Right - smCopy.contentMargins.RightWidth
        /\ ml.chevronClipRect.Right = menuOp.rect.Right
        /\ ml.chevronClipRect.Left =
               menuOp.rect.Right - smCopy.combinedChevronSize.CX
        /\ ml.contentRect.Right - ml.chevronClipRect.Left =
               smCopy.combinedChevronSize.CX - smCopy.contentMargins.RightWidth

\* An item 300 wide was laid out: its content rectangle ends right of the
\* left edge of the chevron clip rectangle.
C24_Witness ==
    /\ LaidOut
    /\ Width(menuOp.rect) = 300
    /\ ml.contentRect.Left < ml.chevronClipRect.Left
    /\ ml.contentRect.Right > ml.chevronClipRect.Left

(***************************************************************************)
(* The separator rectangle                                                 *)
(***************************************************************************)
\* The separator rectangle centred on the combined separator height, before
\* the item margins are stripped.
CentredSeparator ==
    LET top == menuOp.rect.Top
                   + GoHalf(Height(menuOp.rect) - smCopy.combinedSeparatorSize.CY)
    IN  RECT(ml.gutterRect.Right, top, menuOp.rect.Right,
             top + smCopy.combinedSeparatorSize.CY)

\* C25: for any item rectangle the separator rectangle runs from the gutter's
\* right edge to the item's right edge and, before the item margins are
\* stripped, is as high as the combined separator height and vertically
\* centred in the item.
C25_SeparatorRectCentred ==
    LaidOut => ml.separatorRect = stripMargins(CentredSeparator, smCopy.itemMargins)

(***************************************************************************)
(* The chevron clip exclusion of onDraw                                    *)
(***************************************************************************)
\* The places of the calls that draw the submenu chevron.
ChevronDraws ==
    {k \in CallsOf("drawBackground") : menuOp.calls[k].part = "MENU_POPUPSUBMENU"}

\* C26: for a submenu item onDraw excludes the chevron clip rectangle of the
\* layout from the target device context exactly once on every exit path, as
\* its last call and so after the end of the buffered paint if one was begun,
\* and it draws the chevron when it reaches the end of its body; for an item
\* without submenu it issues no exclusion and draws no chevron.
C26_ChevronClipExcludedLast ==
    menuOp.op = "onDraw" =>
        IF item.submenu
        THEN /\ CallsOf("ExcludeClipRect") = {Len(menuOp.calls)}
             /\ menuOp.calls[Len(menuOp.calls)].rect = ml.chevronClipRect
             /\ \A e \in CallsOf("EndBufferedPaint"), k \in CallsOf("ExcludeClipRect") :
                    e < k
             /\ \A d \in BufferDraws, k \in CallsOf("ExcludeClipRect") : d < k
             /\ menuOp.exit = "done" <=> Cardinality(ChevronDraws) = 1
        ELSE /\ CallsOf("ExcludeClipRect") = {}
             /\ ChevronDraws = {}

\* A submenu item was drawn although the canvas of the buffered paint could
\* not be had: the paint was ended and then the chevron clip rectangle was
\* excluded, no chevron having been drawn.
C26_Witness ==
    /\ menuOp.op = "onDraw"
    /\ item.submenu
    /\ menuOp.exit = "canvas"
    /\ Width(menuOp.rect) = 300
    /\ CallsOf("EndBufferedPaint") = {2}
    /\ CallsOf("ExcludeClipRect") = {3}
    /\ ChevronDraws = {}

(***************************************************************************)
(* The registries of the notify icons, checked under SpecIcon              *)
(***************************************************************************)
\* The icons the program created and disposed of.
Disposed == {n \in 1..Len(heap) : isDefunct(heap[n])}

\* The keys of notifyIconIDs that hold icon n.
KeysOf(n) == {k \in DOMAIN notifyIconIDs : notifyIconIDs[k] = n}

\* C27: every entry k -> ni of notifyIconIDs names an icon that is in
\* notifyIcons, is not disposed of, and whose shell id truncated to 16 bits
\* is k; a disposed icon is in neither registry.
C27_RegistriesConsistent ==
    /\ \A k \in DOMAIN notifyIconIDs :
           LET n == notifyIconIDs[k]
           IN  n # NoIcon =>
                   /\ n \in notifyIcons
                   /\ n \notin Disposed
                   /\ heap[n].shellIcon.id # NilId
                   /\ uint16(heap[n].shellIcon.id) = k
    /\ \A n \in Disposed : n \notin notifyIcons /\ KeysOf(n) = {}

(***************************************************************************)
(* The setters of a notify icon                                            *)
(***************************************************************************)
\* The last call was one of the setters, and the field it sets.
IsSetter == iconOp.op \in {"SetVisible", "SetIcon", "SetToolTip"}
SetField ==
    CASE iconOp.op = "SetVisible" -> "visible"
      [] iconOp.op = "SetIcon" -> "icon"
      [] iconOp.op = "SetToolTip" -> "toolTip"

\* The commands of the last call the shell refused.
Refused == {k \in 1..Len(iconOp.issued) : ~iconOp.issued[k].ok}

\* C28: a setter whose shell command fails returns the error and leaves the
\* stored value as it was; a setter given the stored value issues no shell
\* command; a setter of an icon without shell id stores the value without
\* any shell command. In every case the icon is otherwise unchanged, an
\* error leaves the icon as it was, and a return without error leaves the
\* value given stored.
C28_SettersAtomic ==
    IsSetter =>
        LET pre == iconOp.pre
            post == heap[iconOp.ni]
        IN  /\ Refused # {} => (iconOp.err /\ post[SetField] = pre[SetField])
            /\ iconOp.arg = pre[SetField] =>
                   (iconOp.issued = <<>> /\ ~iconOp.err /\ post = pre)
            /\ pre.shellIcon.id = NilId =>
                   (iconOp.issued = <<>> /\ ~iconOp.err
                        /\ post[SetField] = iconOp.arg)
            /\ iconOp.err => post = pre
            /\ ~iconOp.err => post = [pre EXCEPT ![SetField] = iconOp.arg]
            /\ \A k \in 1..Len(iconOp.issued) :
                   /\ iconOp.issued[k].cmd.op = NIM_MODIFY
                   /\ iconOp.issued[k].cmd.uid = pre.shellIcon.id
            /\ Len(iconOp.issued) <= 1

\* SetVisible(true) on a hidden icon with a shell id: the shell refused the
\* command, the error came back and the icon is still not visible.
C28_Witness ==
    /\ iconOp.op = "SetVisible"
    /\ iconOp.arg = TRUE
    /\ iconOp.pre.shellIcon.id # NilId
    /\ Refused = {1}
    /\ iconOp.err
    /\ ~heap[iconOp.ni].visible

(***************************************************************************)
(* The hidden state the shell holds of a notify icon                       *)
(***************************************************************************)
\* The commands of the last call the shell accepted that carry a state.
StateSent ==
    {k \in 1..Len(iconOp.issued) :
        iconOp.issued[k].ok /\ "NIF_STATE" \in iconOp.issued[k].cmd.flags}

\* C30: a new NotifyIcon is not visible; an icon is registered with the
\* shell exactly while it has a shell id, and then the hidden state last
\* successfully sent to the shell is the negation of Visible(); a
\* reAddToTaskbar of an icon that is not visible sends no state other than
\* hidden and leaves the icon not visible.
C30_ShellHiddenIsNotVisible ==
    /\ (iconOp.op = "NewNotifyIcon" /\ ~iconOp.err) => ~heap[iconOp.ni].visible
    /\ \A n \in 1..Len(heap) :
           /\ shell[n].added <=> heap[n].shellIcon.id # NilId
           /\ shell[n].added => (shell[n].hidden <=> ~heap[n].visible)
    /\ (iconOp.op = "reAddToTaskbar" /\ ~iconOp.pre.visible) =>
           /\ \A k \in StateSent : iconOp.issued[k].cmd.hidden
           /\ ~heap[iconOp.ni].visible

\* An icon that is not visible was added to the taskbar again: the shell
\* was told to hide it.
C30_Witness ==
    /\ iconOp.op = "reAddToTaskbar"
    /\ ~iconOp.err
    /\ ~iconOp.pre.visible
    /\ StateSent # {}
    /\ shell[iconOp.ni] = [added |-> TRUE, hidden |-> TRUE]
    /\ ~heap[iconOp.ni].visible

====
